---- MODULE Spec2Model ----
(***************************************************************************)
(* Background coordinator of TheOneSuspender: the message router and the   *)
(* event handlers of background/listeners.js and the State Store of        *)
(* common/state.js (src/unnamed/part_000).                                 *)
(*                                                                         *)
(* The JavaScript runs on one thread.  An action of this module is one     *)
(* run-to-completion stretch of it: the arrival of a message or host event *)
(* with the code up to the first await, or the completion of one awaited   *)
(* host or collaborator call with the code up to the next await.  The      *)
(* outcome of an awaited call (its value, or its rejection) is chosen with *)
(* \E when the call completes.                                             *)
(***************************************************************************)
EXTENDS Integers, Sequences, FiniteSets, TLC

(***************************************************************************)
(* Bounds of the model.                                                    *)
(***************************************************************************)
\* Timer ids the host hands out to setTimeout (ids of fired or cleared timers
\* are handed out again).
MaxTimers == 4
\* Windows and tabs of the host, numbered from 1.
MaxWindow == 2
MaxTab == 2
\* Suspended tabs returned to a favicon refresh.
MaxReload == 2
\* Tab descriptors handed to one run of reloadSuspendedTabsBatched, and its
\* batchSize.
MaxInput == 5
MaxBatch == 2
\* Tabs returned to a statistics request.
MaxListed == 2

VARIABLES
    \* chrome.storage.local (durable, survives the process)
    bulkStored,            \* STORAGE_KEYS.BULK_RUNNING (FALSE when not set)
    favStored,             \* STORAGE_KEYS.FAVICON_REFRESH_RUNNING
    \* state.js module variables (lost with the process)
    bulkOpTimeoutId,       \* 0 is null
    lastFocusedWindowId,   \* WINDOW_ID_NONE when none
    activeTabsByWindow,    \* [window -> tab], 0 for "no entry"
    \* the host
    timers,                \* pending setTimeout ids of this process
    liveWindows,           \* windows chrome.windows.getAll() reports
    \* asynchronous activations in flight
    tasks,                 \* message handlers, one per slot
    wdRun,                 \* watchdog callbacks in flight
    wdSend,                \* those of them that await chrome.runtime.sendMessage
    evts,                  \* event handlers, one per slot
    rl,                    \* a run of reloadSuspendedTabsBatched
    \* history variables (observations, not program state)
    hist,                  \* of the durable flags and the watchdog
    whist,                 \* of the window tracking
    sched                  \* the collaborator calls of the last event handler

storageVars == <<bulkStored, favStored>>
stateVars == <<bulkOpTimeoutId, lastFocusedWindowId, activeTabsByWindow>>
hostVars == <<timers, liveWindows>>
vars == <<bulkStored, favStored, bulkOpTimeoutId, lastFocusedWindowId,
          activeTabsByWindow, timers, liveWindows, tasks, wdRun, wdSend, evts, rl, hist,
          whist, sched>>

(***************************************************************************)
(* Values.                                                                 *)
(***************************************************************************)
WINDOW_ID_NONE == -1
Windows == 1..MaxWindow
Tabs == 1..MaxTab
TimerIds == 1..MaxTimers
Slots == {"a", "b"}

RuntimeId == "self"
\* `chrome-extension://${chrome.runtime.id}/`
ExtensionOrigin == <<"chrome-extension://", RuntimeId, "/">>
\* sender.url values: absent, a page of this extension, a web page, a page of
\* another extension.
NoUrl == <<>>
OwnPageUrl == <<"chrome-extension://", RuntimeId, "/", "popup.html">>
WebPageUrl == <<"https://", "example.com", "/">>
OtherExtUrl == <<"chrome-extension://", "other", "/", "page.html">>

\* String.prototype.startsWith
startsWith(s, prefix) ==
    /\ Len(s) >= Len(prefix)
    /\ SubSeq(s, 1, Len(prefix)) = prefix

\* An absent (undefined) number field.  The numbers themselves are 0 and up.
Undefined == -1
\* The truthiness of a number field: undefined and 0 are falsy.
Truthy(v) == v # Undefined /\ v # 0

\* A message sender: when sender.tab is absent tabId is Undefined and windowId
\* is 0 (sender.tab.windowId is only tested for truthiness).
Sender(id, url, tabId, windowId) ==
    [id |-> id, url |-> url, tabId |-> tabId, windowId |-> windowId]
PopupSender == Sender(RuntimeId, OwnPageUrl, Undefined, 0)
OptionsTabSender == Sender(RuntimeId, OwnPageUrl, 3, 1)
ContentScriptSender == Sender(RuntimeId, WebPageUrl, 1, 1)
NoUrlSender == Sender(RuntimeId, NoUrl, Undefined, 0)
ForeignSender == Sender("other", OtherExtUrl, Undefined, 0)
\* A content script in the tab whose id is 0.
ZeroTabSender == Sender(RuntimeId, WebPageUrl, 0, 1)
Senders ==
    {PopupSender, OptionsTabSender, ContentScriptSender, NoUrlSender, ForeignSender,
     ZeroTabSender}

\* A response object handed to sendResponse.  success is "true", "false" or
\* "absent"; error is the message or "absent"; data holds the other fields:
\* their kind and up to four numbers.
Data(kind, a, b, c, d) == [kind |-> kind, a |-> a, b |-> b, c |-> c, d |-> d]
NoData == Data("none", 0, 0, 0, 0)
Resp(success, error, data) == [success |-> success, error |-> error, data |-> data]
NoResp == Resp("absent", "absent", NoData)
ErrorResp(msg) == Resp("absent", msg, NoData)
SuccessResp == Resp("true", "absent", NoData)
Bool2Str(b) == IF b THEN "true" ELSE "false"

(***************************************************************************)
(* Requests.  A request is the message object given to handleMessage:      *)
(* isNull for a null or undefined request, type "" for a missing type, and *)
(* the payload fields the handlers read.  tabId is Undefined when absent;  *)
(* windowId, only ever tested for truthiness, is 0 when absent.            *)
(***************************************************************************)
\* request.tabIds: an array (or not) of items, each a number or not.
Item(isNumber, id) == [isNumber |-> isNumber, id |-> id]
TabIds(isArray, items) == [isArray |-> isArray, items |-> items]
NoTabIds == TabIds(FALSE, <<>>)

Request(type, settings, newWhitelist, tabId, windowId, tabIds) ==
    [isNull |-> FALSE, type |-> type, settings |-> settings,
     newWhitelist |-> newWhitelist, tabId |-> tabId, windowId |-> windowId,
     tabIds |-> tabIds]
Plain(type) == Request(type, "absent", "absent", Undefined, 0, NoTabIds)
NullRequest == [Plain("") EXCEPT !.isNull = TRUE]

\* request.settings: absent, not an object, or an object that leaves the
\* preferences as they are, changes suspendAfter, or changes
\* unsavedFormHandling.
SettingsValues == {"absent", "notObject", "same", "suspendAfter", "unsavedFormHandling"}
WhitelistValues == {"absent", "notArray", "array"}
TabIdsValues ==
    {NoTabIds, TabIds(TRUE, <<>>), TabIds(TRUE, <<Item(TRUE, 1)>>),
     TabIds(TRUE, <<Item(FALSE, 0)>>),
     TabIds(TRUE, <<Item(TRUE, 2), Item(FALSE, 0), Item(TRUE, 1)>>)}

BulkKinds ==
    {"MSG_SUSPEND_ALL_TABS_IN_WINDOW", "MSG_UNSUSPEND_ALL_TABS_IN_WINDOW",
     "MSG_SUSPEND_ALL_TABS_ALL_SPECS", "MSG_UNSUSPEND_ALL_TABS_ALL_SPECS"}
WindowBulkKinds ==
    {"MSG_SUSPEND_ALL_TABS_IN_WINDOW", "MSG_UNSUSPEND_ALL_TABS_IN_WINDOW"}
SelectedKinds == {"MSG_SUSPEND_SELECTED_TABS", "MSG_UNSUSPEND_SELECTED_TABS"}
ToolKinds ==
    {"MSG_CLEAR_FAVICON_CACHE", "MSG_REFRESH_ALL_SUSPENDED_FAVICONS",
     "MSG_GET_EXTENSION_STATS", "MSG_GET_SKIPPED_TABS", "MSG_RESET_BULK_OP_RUNNING"}
\* The kinds the interface table of the specification marks privileged.
PrivilegedKinds ==
    {"MSG_SAVE_SETTINGS", "MSG_SAVE_WHITELIST", "MSG_PREFS_CHANGED", "MSG_UNSUSPEND_TAB"}
        \cup BulkKinds \cup SelectedKinds \cup ToolKinds

Requests ==
    {NullRequest, Plain(""), Plain("MSG_NOT_A_KIND"), Plain("IS_BULK_OP_RUNNING"),
     Plain("MSG_PREFS_CHANGED")}
    \cup {Plain(t) : t \in ToolKinds}
    \cup {[Plain("MSG_SAVE_SETTINGS") EXCEPT !.settings = v] : v \in SettingsValues}
    \cup {[Plain("MSG_SAVE_WHITELIST") EXCEPT !.newWhitelist = v] : v \in WhitelistValues}
    \cup {[Plain(t) EXCEPT !.tabId = i] :
            t \in {"MSG_SUSPEND_TAB", "MSG_UNSUSPEND_TAB"}, i \in {Undefined, 0, 2}}
    \cup {[Plain(t) EXCEPT !.windowId = w] : t \in BulkKinds, w \in {0, 2}}
    \cup {[Plain(t) EXCEPT !.tabIds = v] : t \in SelectedKinds, v \in TabIdsValues}

(***************************************************************************)
(* A message handler in flight.                                            *)
(*   pc      where the handler waits ("idle": free slot, "done": settled)  *)
(*   nresp   how many times sendResponse was invoked                       *)
(*   resp    the last response (at pc "reply": the one about to be sent)   *)
(*   ret     what handleMessage returned                                   *)
(*   fx      the collaborator calls and storage writes the request caused  *)
(*   arg     a tab or window id, or a loop index, local to the handler     *)
(*   n       a counter local to the handler                                *)
(*   err     the message of the failure being propagated ("" when none)    *)
(* and, for the record only (no handler reads them):                       *)
(*   failed  the message of the last call that failed for the request      *)
(*   thrown  the message the handler's async function was rejected with    *)
(*           (both "none" when there was none)                             *)
(*   calls   the tab ids suspendTab or unsuspendTab was called with, in    *)
(*           the order of the calls                                        *)
(*   todo    the reloads of reloadSuspendedTabsBatched not yet settled     *)
(***************************************************************************)
Task(request, sender, pc, nresp, resp, ret, fx, arg, n, err) ==
    [request |-> request, sender |-> sender, pc |-> pc, nresp |-> nresp,
     resp |-> resp, ret |-> ret, fx |-> fx, arg |-> arg, n |-> n, err |-> err,
     failed |-> "none", thrown |-> "none", calls |-> <<>>, todo |-> 0]
\* The task after a call it awaited failed with msg (after it succeeded: ok).
Failed(t, ok, msg) == IF ok THEN t ELSE [t EXCEPT !.failed = msg]
Counts(success, skipped, errors) ==
    [success |-> success, skipped |-> skipped, errors |-> errors]
NoCounts == Counts(0, 0, 0)
IdleTask ==
    Task(NullRequest, NoUrlSender, "idle", 0, NoResp, FALSE, {}, 0, NoCounts, "")

Free(s) == tasks[s].pc = "idle"

(***************************************************************************)
(* State Store: the durable flags (state.js).                              *)
(***************************************************************************)
\* A getter that answers from the process-local watchdog handle instead of
\* reading storage (what a mirror of the flag in memory would do).
getBulkOpRunning_cached(readOk) ==
    bulkOpTimeoutId # 0

\* A getter that reports the flag set when the storage read fails.
getBulkOpRunning_failSet(readOk) ==
    IF readOk THEN bulkStored ELSE TRUE

\* getBulkOpRunning: the stored value, or false when the storage read fails.
getBulkOpRunning(readOk) ==
    IF readOk THEN bulkStored ELSE FALSE

\* getFaviconRefreshRunning: likewise.
getFaviconRefreshRunning(readOk) ==
    IF readOk THEN favStored ELSE FALSE

\* The id setTimeout returns: one that names no pending timer and is not the
\* id the module still remembers.
FreshTimer ==
    CHOOSE t \in TimerIds : t \notin timers /\ t # bulkOpTimeoutId

\* setBulkOpRunning up to its await: the pending timeout is cleared, and the
\* storage write is issued.
setBulkOpRunning_begin ==
    /\ timers' = IF bulkOpTimeoutId # 0 THEN timers \ {bulkOpTimeoutId} ELSE timers
    /\ bulkOpTimeoutId' = 0
    /\ UNCHANGED bulkStored

\* setBulkOpRunning after its await: the write landed (writeOk) and, for a true
\* value, the watchdog is armed; or the write failed and the catch logs it.
setBulkOpRunning_end(value, writeOk) ==
    IF writeOk
    THEN /\ bulkStored' = value
         /\ IF value
            THEN /\ timers' = timers \cup {FreshTimer}
                 /\ bulkOpTimeoutId' = FreshTimer
            ELSE UNCHANGED <<timers, bulkOpTimeoutId>>
    ELSE UNCHANGED <<bulkStored, timers, bulkOpTimeoutId>>

\* setFaviconRefreshRunning after its await.
setFaviconRefreshRunning_end(value, writeOk) ==
    favStored' = IF writeOk THEN value ELSE favStored

\* The bound of the exploration on the watchdog: the specifications start a
\* request or a call that may arm a timer only while the timers pending, the
\* callbacks running and the arming calls in flight leave room for one more.
\* The code has no such limit.
ArmingCalls ==
    {s \in Slots : tasks[s].pc \in {"bs_check", "bs_arm", "bs_getCurrent"}
                    \/ (tasks[s].pc = "call_set" /\ tasks[s].arg = 1)}
CanArm ==
    Cardinality(timers) + Cardinality(ArmingCalls) + wdRun + 2 <= MaxTimers

(***************************************************************************)
(* History of the durable flags and of the watchdog.                       *)
(*   written    the value the last successful write gave each flag         *)
(*   restarted  whether the process restarted since that write             *)
(*   obs        the last call of a getter: the flag, whether its storage   *)
(*              read succeeded, what it returned, and written/restarted    *)
(*              of the flag at that moment                                 *)
(*   act        the last activation, setBulkOpRunning(true) that wrote the *)
(*              flag and armed timer actTimer with nothing else of the     *)
(*              watchdog in flight: "active" until ten minutes have passed *)
(*              ("elapsed"), "void" once setBulkOpRunning is called again  *)
(*   bcast      reset broadcasts attempted since the activation, counted   *)
(*              while it is "active" or "elapsed"                          *)
(*   armed      a setBulkOpRunning(true) wrote the flag and no             *)
(*              setBulkOpRunning(false) wrote it since                     *)
(*   clean      the last call of setBulkOpRunning to end was a             *)
(*              setBulkOpRunning(false) that wrote the flag after an       *)
(*              activation, no other call of it is or was in flight since  *)
(*   late       a reset broadcast was attempted while clean                *)
(*   wd         the last watchdog callback to write: "written" while its   *)
(*              reset message is in flight, then how it ended,             *)
(*              "delivered" or "undelivered" (message received or not);    *)
(*              "unwritten" when the write of the last callback failed;    *)
(*              "none" once setBulkOpRunning is called or writes again     *)
(***************************************************************************)
Obs(flag, ok, result, expect, afterRestart) ==
    [flag |-> flag, ok |-> ok, result |-> result, expect |-> expect,
     afterRestart |-> afterRestart]
NoObs == Obs("none", TRUE, FALSE, FALSE, FALSE)
InitHist ==
    [written |-> [bulk |-> FALSE, fav |-> FALSE],
     restarted |-> [bulk |-> FALSE, fav |-> FALSE],
     obs |-> NoObs, act |-> "none", actTimer |-> 0, bcast |-> 0,
     armed |-> FALSE, clean |-> FALSE, late |-> FALSE, wd |-> "none"]

\* Calls of setBulkOpRunning in flight, other than the one of slot s.
OtherSetCalls(s) ==
    {o \in Slots \ {s} : tasks[o].pc \in {"bs_arm", "bs_clear", "rs_set", "call_set"}}

HistSetBegin(h) ==
    IF h.act \in {"active", "elapsed"}
    THEN [h EXCEPT !.act = "void", !.actTimer = 0, !.bcast = 0,
                   !.clean = FALSE, !.late = FALSE, !.wd = "none"]
    ELSE [h EXCEPT !.clean = FALSE, !.late = FALSE, !.wd = "none"]

HistSetEnd(h, s, value, writeOk) ==
    IF ~writeOk THEN h
    ELSE IF ~value
    THEN [h EXCEPT !.written.bulk = FALSE, !.restarted.bulk = FALSE,
                   !.armed = FALSE, !.wd = "none",
                   !.clean = h.armed /\ OtherSetCalls(s) = {}]
    ELSE IF OtherSetCalls(s) = {} /\ wdRun - wdSend = 0 /\ timers = {}
    THEN [h EXCEPT !.written.bulk = TRUE, !.restarted.bulk = FALSE,
                   !.act = "active", !.actTimer = FreshTimer, !.bcast = 0,
                   !.armed = TRUE, !.wd = "none"]
    ELSE [h EXCEPT !.written.bulk = TRUE, !.restarted.bulk = FALSE,
                   !.act = "void", !.actTimer = 0, !.bcast = 0,
                   !.armed = TRUE, !.wd = "none"]

HistGet(h, flag, ok, result) ==
    [h EXCEPT !.obs = Obs(flag, ok, result, h.written[flag], h.restarted[flag])]

(***************************************************************************)
(* Message Router: handleMessage up to its return (listeners.js).          *)
(***************************************************************************)
validateMessageSender(sender, requiresExtensionOrigin) ==
    IF requiresExtensionOrigin
    THEN /\ sender.id = RuntimeId
         /\ sender.url # NoUrl
         /\ startsWith(sender.url, ExtensionOrigin)
    ELSE sender.tabId # Undefined

\* What handleMessage has done when it returns.
\*   "sync"    sendResponse(resp) was called directly; it returns false
\*   "settle"  the async function handed to handleAsyncMessage returned resp
\*             before any await: its promise is resolved and the then-callback
\*             of handleAsyncMessage is queued (pc "reply"); handleMessage
\*             returns true
\*   "await"   the async function waits at pc for the call it issued (fx)
Decision(kind, pc, resp, arg, fx) ==
    [kind |-> kind, pc |-> pc, resp |-> resp, arg |-> arg, fx |-> fx]
SyncReply(resp) == Decision("sync", "done", resp, 0, {})
AsyncReply(resp) == Decision("settle", "reply", resp, 0, {})
Await(pc, arg, fx) == Decision("await", pc, NoResp, arg, fx)
PermissionDenied == SyncReply(ErrorResp("Permission denied"))

\* The collaborator call of a bulk kind.
BulkCall(type) ==
    CASE type = "MSG_SUSPEND_ALL_TABS_IN_WINDOW" -> "suspendAllTabsInWindow"
      [] type = "MSG_UNSUSPEND_ALL_TABS_IN_WINDOW" -> "unsuspendAllTabsInWindow"
      [] type = "MSG_SUSPEND_ALL_TABS_ALL_SPECS" -> "suspendAllTabsAllSpecs"
      [] OTHER -> "unsuspendAllTabsAllSpecs"

\* A filter that stops at the first member that is not a number.
RECURSIVE NumericIds_leading(_)
NumericIds_leading(items) ==
    IF items = <<>> \/ ~Head(items).isNumber THEN <<>>
    ELSE <<Head(items).id>> \o NumericIds_leading(Tail(items))

\* request.tabIds.filter(id => typeof id === 'number')
RECURSIVE NumericIds(_)
NumericIds(items) ==
    IF items = <<>> THEN <<>>
    ELSE (IF Head(items).isNumber THEN <<Head(items).id>> ELSE <<>>)
             \o NumericIds(Tail(items))

SelectedCall(type) ==
    IF type = "MSG_SUSPEND_SELECTED_TABS" THEN "suspendTab" ELSE "unsuspendTab"

CountsResp(n, total) ==
    Resp("true", "absent", Data("counts", n.success, n.skipped, n.errors, total))

\* The case labels of the switch whose first statement is
\* if (!validateMessageSender(sender, true)) { ...Permission denied... }.
ValidatedKinds ==
    {"MSG_SAVE_SETTINGS", "MSG_SAVE_WHITELIST", "MSG_PREFS_CHANGED", "MSG_UNSUSPEND_TAB"}
        \cup BulkKinds \cup SelectedKinds

\* The default branch with its last test dropped: whatever is not another
\* utility kind is handled as MSG_RESET_BULK_OP_RUNNING.
handleToolMessage_lastCase(request) ==
    CASE request.type = "MSG_CLEAR_FAVICON_CACHE" ->
            Await("cf_write", 0, {"storage.set:TS_favicon_cache_v1"})
      [] request.type = "MSG_REFRESH_ALL_SUSPENDED_FAVICONS" ->
            Await("fr_read", 0, {})
      [] request.type \in {"MSG_GET_EXTENSION_STATS", "MSG_GET_SKIPPED_TABS"} ->
            Await("gs_query", 0, {"tabs.query"})
      [] OTHER ->
            Await("rs_set", 0, {"setBulkOpRunning", "storage.set:BULK_RUNNING"})

\* The utility kinds of the default branch: no sender validation.
handleToolMessage(request) ==
    CASE request.type = "MSG_CLEAR_FAVICON_CACHE" ->
            Await("cf_write", 0, {"storage.set:TS_favicon_cache_v1"})
      [] request.type = "MSG_REFRESH_ALL_SUSPENDED_FAVICONS" ->
            Await("fr_read", 0, {})
      [] request.type = "MSG_GET_EXTENSION_STATS" ->
            Await("gs_query", 0, {"tabs.query"})
      [] request.type = "MSG_GET_SKIPPED_TABS" ->
            Await("gs_query", 0, {"tabs.query"})
      [] request.type = "MSG_RESET_BULK_OP_RUNNING" ->
            Await("rs_set", 0, {"setBulkOpRunning", "storage.set:BULK_RUNNING"})
      [] OTHER -> SyncReply(ErrorResp("Unknown message type"))

handleMessage(request, sender) ==
    IF request.isNull \/ request.type = ""
    THEN SyncReply(ErrorResp("Invalid request"))
    ELSE IF request.type = "IS_BULK_OP_RUNNING"
    THEN Await("q_get", 0, {})
    ELSE IF request.type = "MSG_SUSPEND_TAB"
    THEN LET isExtensionPage == validateMessageSender(sender, TRUE)
             isContentScript == Truthy(sender.tabId)
             tabIdToUse == IF Truthy(request.tabId) THEN request.tabId ELSE sender.tabId
         IN  IF ~isExtensionPage /\ ~isContentScript THEN PermissionDenied
             ELSE IF Truthy(tabIdToUse) THEN Await("st_call", tabIdToUse, {"suspendTab"})
             ELSE SyncReply(ErrorResp(
                     "Missing tabId for suspension: request.tabId and sender.tab.id were both unavailable."))
    ELSE IF request.type \in ValidatedKinds
    THEN IF ~validateMessageSender(sender, TRUE) THEN PermissionDenied
         ELSE CASE request.type = "MSG_SAVE_SETTINGS" ->
                    IF request.settings \in {"absent", "notObject"}
                    THEN AsyncReply(ErrorResp("Invalid settings: Expected an object"))
                    ELSE Await("ss_save", 0, {"savePrefs"})
                [] request.type = "MSG_SAVE_WHITELIST" ->
                    IF request.newWhitelist \in {"absent", "notArray"}
                    THEN AsyncReply(ErrorResp("Invalid whitelist: Expected an array"))
                    ELSE Await("sw_save", 0, {"saveWhitelist"})
                [] request.type = "MSG_PREFS_CHANGED" ->
                    Await("pc_schedule", 0, {"scheduleAllTabs"})
                [] request.type = "MSG_UNSUSPEND_TAB" ->
                    IF Truthy(request.tabId)
                    THEN Await("st_call", request.tabId, {"unsuspendTab"})
                    ELSE SyncReply(ErrorResp("Missing tabId"))
                [] request.type \in WindowBulkKinds ->
                    IF request.windowId # 0
                    THEN Await("bs_check", request.windowId, {BulkCall(request.type)})
                    ELSE IF sender.tabId # Undefined /\ sender.windowId # 0
                    THEN Await("bs_check", sender.windowId, {BulkCall(request.type)})
                    ELSE Await("bs_getCurrent", 0, {"windows.getCurrent"})
                [] request.type \in BulkKinds \ WindowBulkKinds ->
                    Await("bs_check", 0, {BulkCall(request.type)})
                [] OTHER ->  \* the selected-tabs kinds
                    IF ~request.tabIds.isArray \/ request.tabIds.items = <<>>
                    THEN SyncReply(ErrorResp("No tabIds provided"))
                    ELSE IF NumericIds(request.tabIds.items) = <<>>
                    THEN AsyncReply(CountsResp(NoCounts, 0))
                    ELSE Await("sel_call", 1, {SelectedCall(request.type)})
    ELSE handleToolMessage(request)

\* handleAsyncMessage: the responses sent when the async function settles with
\* outcome [ok, resp] (ok: resolved with resp; else rejected, resp.error
\* holding error.message, "" when it has none).
Resolved(resp) == [ok |-> TRUE, resp |-> resp]
Rejected(msg) == [ok |-> FALSE, resp |-> ErrorResp(msg)]
\* handleAsyncMessage with a catch that drops the message of the failure.
handleAsyncMessage_anonymous(outcome) ==
    IF outcome.ok THEN <<outcome.resp>> ELSE <<ErrorResp("Unknown error")>>

handleAsyncMessage(outcome) ==
    IF outcome.ok
    THEN <<outcome.resp>>
    ELSE <<ErrorResp(IF outcome.resp.error # "" THEN outcome.resp.error
                     ELSE "Unknown error")>>

\* The task after sendResponse was invoked with each of resps.
Responded(t, resps) ==
    [t EXCEPT !.pc = "done",
              !.nresp = @ + Len(resps),
              !.resp = IF resps = <<>> THEN @ ELSE resps[Len(resps)]]
Settle(t, outcome) ==
    Responded(IF outcome.ok THEN t
              ELSE [t EXCEPT !.failed = outcome.resp.error,
                             !.thrown = outcome.resp.error],
              handleAsyncMessage(outcome))

\* A listener that returns true on every path.
Returns_true(d) == TRUE

\* handleMessage's return value: false after a direct sendResponse, true
\* after a call of handleAsyncMessage.
Returns(d) == d.kind # "sync"

(***************************************************************************)
(* Arrival of a message: handleMessage(request, sender, sendResponse).     *)
(***************************************************************************)
bulkVars == <<bulkStored, bulkOpTimeoutId, timers>>
winVars == <<lastFocusedWindowId, activeTabsByWindow, liveWindows, evts, whist, rl,
            sched>>

SetTask(s, t) == tasks' = [tasks EXCEPT ![s] = t]

Receive(s, request, sender) ==
    /\ Free(s)
    /\ LET d == handleMessage(request, sender)
           t == [Task(request, sender, d.pc, 0, NoResp, Returns(d), d.fx,
                      d.arg, NoCounts, "")
                   EXCEPT !.calls =
                      CASE d.pc = "st_call" -> <<d.arg>>
                        [] d.pc = "sel_call" ->
                              <<NumericIds(request.tabIds.items)[d.arg]>>
                        [] OTHER -> <<>>]
       IN  /\ SetTask(s, CASE d.kind = "sync" -> Responded(t, <<d.resp>>)
                           [] d.kind = "settle" -> [t EXCEPT !.resp = d.resp]
                           [] OTHER -> t)
           /\ IF d.pc = "rs_set"
              THEN setBulkOpRunning_begin /\ hist' = HistSetBegin(hist)
              ELSE UNCHANGED <<bulkVars, hist>>
    /\ UNCHANGED <<favStored, wdRun, wdSend, winVars>>

\* The response was delivered and the request is over: its slot is free again.
Forget(s) ==
    /\ tasks[s].pc = "done"
    /\ SetTask(s, IdleTask)
    /\ UNCHANGED <<bulkVars, favStored, wdRun, wdSend, hist, winVars>>

(***************************************************************************)
(* Completion of the awaited calls of the handlers.                        *)
(***************************************************************************)
\* The then-callback of handleAsyncMessage for an async function that returned
\* without awaiting: sendResponse(result), after handleMessage has returned.
Replied(s) ==
    /\ tasks[s].pc = "reply"
    /\ SetTask(s, Settle(tasks[s], Resolved(tasks[s].resp)))
    /\ UNCHANGED <<bulkVars, favStored, wdRun, wdSend, hist, winVars>>

\* The sendResponse(result) call of handleAsyncMessage's then-callback throws
\* (the channel to the requester is closed): the catch-callback logs the
\* error and calls sendResponse({ error: error.message || "Unknown error" }).
DeliveryFailed(s) ==
    /\ tasks[s].pc = "done"
    /\ tasks[s].ret
    /\ tasks[s].nresp = 1
    /\ tasks[s].thrown = "none"
    /\ SetTask(s, Responded(tasks[s], handleAsyncMessage(Rejected("channel closed"))))
    /\ UNCHANGED <<bulkVars, favStored, wdRun, wdSend, hist, winVars>>

\* IS_BULK_OP_RUNNING: await State.getBulkOpRunning(); return { running }
QueryDone(s) ==
    /\ tasks[s].pc = "q_get"
    /\ \E readOk \in BOOLEAN :
          LET running == getBulkOpRunning(readOk)
          IN  /\ SetTask(s, Settle(Failed(tasks[s], readOk, "storage read failed"),
                        Resolved(Resp("absent", "absent",
                                      Data("running", IF running THEN 1 ELSE 0, 0, 0, 0)))))
              /\ hist' = HistGet(hist, "bulk", readOk, running)
    /\ UNCHANGED <<bulkVars, favStored, wdRun, wdSend, winVars>>

\* MSG_SAVE_SETTINGS after await Preferences.savePrefs(newSettings)
SaveSettingsSaved(s) ==
    /\ tasks[s].pc = "ss_save"
    /\ \E ok \in BOOLEAN :
          LET t == tasks[s]
              relevant == t.request.settings \in {"suspendAfter", "unsavedFormHandling"}
              t1 == [t EXCEPT !.fx = IF relevant
                                     THEN @ \cup {"debouncedScheduleAllTabsAlarmBacked"}
                                     ELSE @]
          IN  SetTask(s, IF ~ok THEN Settle(t, Rejected("savePrefs failed"))
                         ELSE IF t.request.settings = "unsavedFormHandling"
                         THEN [t1 EXCEPT !.pc = "ss_notify",
                                         !.fx = @ \cup {"notifyAllTabsPrefsChanged"}]
                         ELSE Settle(t1, Resolved(SuccessResp)))
    /\ UNCHANGED <<bulkVars, favStored, wdRun, wdSend, hist, winVars>>

\* MSG_SAVE_SETTINGS after await notifyAllTabsPrefsChanged(), which catches
\* and logs the failure of its chrome.tabs.query: the handler returns
\* { success: true } either way.
SaveSettingsNotified(s) ==
    /\ tasks[s].pc = "ss_notify"
    /\ \E ok \in BOOLEAN :
          SetTask(s, Settle(Failed(tasks[s], ok, "tabs.query failed"),
                            Resolved(SuccessResp)))
    /\ UNCHANGED <<bulkVars, favStored, wdRun, wdSend, hist, winVars>>

\* A handler that answers as soon as the whitelist is saved and leaves the
\* reschedule for later.
SaveWhitelistSaved_answerFirst(s) ==
    /\ tasks[s].pc = "sw_save"
    /\ \E ok \in BOOLEAN :
          SetTask(s, IF ~ok THEN Settle(tasks[s], Rejected("saveWhitelist failed"))
                     ELSE Settle(tasks[s], Resolved(SuccessResp)))
    /\ UNCHANGED <<bulkVars, favStored, wdRun, wdSend, hist, winVars>>

\* MSG_SAVE_WHITELIST after await Preferences.saveWhitelist(...)
SaveWhitelistSaved(s) ==
    /\ tasks[s].pc = "sw_save"
    /\ \E ok \in BOOLEAN :
          SetTask(s, IF ~ok THEN Settle(tasks[s], Rejected("saveWhitelist failed"))
                     ELSE Settle([tasks[s] EXCEPT
                                    !.fx = @ \cup {"debouncedScheduleAllTabsAlarmBacked"}],
                                 Resolved(SuccessResp)))
    /\ UNCHANGED <<bulkVars, favStored, wdRun, wdSend, hist, winVars>>

\* MSG_PREFS_CHANGED after await Scheduling.scheduleAllTabs()
PrefsChangedScheduled(s) ==
    /\ tasks[s].pc = "pc_schedule"
    /\ \E ok \in BOOLEAN :
          SetTask(s, IF ~ok THEN Settle(tasks[s], Rejected("scheduleAllTabs failed"))
                     ELSE [tasks[s] EXCEPT !.pc = "pc_resched",
                                           !.fx = @ \cup {"rescheduleSessionAutoSave"}])
    /\ UNCHANGED <<bulkVars, favStored, wdRun, wdSend, hist, winVars>>

\* The failures of the calls rescheduleSessionAutoSave awaits, in order.
RescheduleFailures ==
    {"alarms.clear failed", "storage.get failed", "alarms.create failed",
     "alarms.getAll failed"}

\* MSG_PREFS_CHANGED after await rescheduleSessionAutoSave(), which catches
\* and logs the failure of any call it awaits: the handler returns
\* { success: true } either way.
PrefsChangedRescheduled(s) ==
    /\ tasks[s].pc = "pc_resched"
    /\ \E failure \in RescheduleFailures \cup {"none"} :
          SetTask(s, Settle(Failed(tasks[s], failure = "none", failure),
                            Resolved(SuccessResp)))
    /\ UNCHANGED <<bulkVars, favStored, wdRun, wdSend, hist, winVars>>

\* MSG_SUSPEND_TAB, MSG_UNSUSPEND_TAB after await Suspension.suspendTab(...) or
\* unsuspendTab(...): return { success: result }; the call may also reject,
\* with an error that has a message or with one that has none.
SingleTabDone(s) ==
    /\ tasks[s].pc = "st_call"
    /\ \E result \in {"true", "false", "throw", "throwBare"} :
          SetTask(s, CASE result = "throw" ->
                            Settle(tasks[s], Rejected("No tab with id"))
                       [] result = "throwBare" -> Settle(tasks[s], Rejected(""))
                       [] OTHER -> Settle(tasks[s], Resolved(Resp(result, "absent", NoData))))
    /\ UNCHANGED <<bulkVars, favStored, wdRun, wdSend, hist, winVars>>

\* The selected-tabs kinds after the await of the call for ids[arg]: the
\* outcome is counted and the next call is issued, or the counts are returned.
SelectedStep(s) ==
    /\ tasks[s].pc = "sel_call"
    /\ \E result \in {"true", "false", "throw"} :
          LET t == Failed(tasks[s], result # "throw", "No tab with id")
              ids == NumericIds(t.request.tabIds.items)
              n == CASE result = "true" -> [t.n EXCEPT !.success = @ + 1]
                     [] result = "false" -> [t.n EXCEPT !.skipped = @ + 1]
                     [] OTHER -> [t.n EXCEPT !.errors = @ + 1]
          IN  SetTask(s, IF t.arg < Len(ids)
                         THEN [t EXCEPT !.n = n, !.arg = @ + 1,
                                        !.calls = Append(@, ids[t.arg + 1])]
                         ELSE Settle([t EXCEPT !.n = n],
                                     Resolved(CountsResp(n, Len(ids)))))
    /\ UNCHANGED <<bulkVars, favStored, wdRun, wdSend, hist, winVars>>

\* MSG_CLEAR_FAVICON_CACHE after await chrome.storage.local.set(...): the
\* handler's own catch returns { error: e.message }.
ClearCacheDone(s) ==
    /\ tasks[s].pc = "cf_write"
    /\ \E ok \in BOOLEAN :
          SetTask(s, Settle(Failed(tasks[s], ok, "storage write failed"),
                            Resolved(IF ok THEN SuccessResp
                                     ELSE ErrorResp("storage write failed"))))
    /\ UNCHANGED <<bulkVars, favStored, wdRun, wdSend, hist, winVars>>

\* MSG_GET_EXTENSION_STATS, MSG_GET_SKIPPED_TABS: what the handler has counted
\* so far: the tabs chrome.tabs.query returned, those of them that are
\* suspended, the size of the scheduling snapshot, and the tabs
\* shouldSkipTabForScheduling gave a reason for.
Tally(total, suspended, scheduled, skipped) ==
    [total |-> total, suspended |-> suspended, scheduled |-> scheduled,
     skipped |-> skipped]

\* The response of the two handlers: the four numbers of the statistics, or
\* the list of the skipped tabs (its length).
StatsResp(request, n) ==
    IF request.type = "MSG_GET_EXTENSION_STATS"
    THEN Resp("true", "absent",
              Data("stats", n.total, n.suspended, n.scheduled, n.skipped))
    ELSE Resp("true", "absent", Data("skippedTabs", n.skipped, 0, 0, 0))

\* After await chrome.tabs.query({}): a rejection goes to the catch of
\* handleAsyncMessage; otherwise the handler counts the suspended tabs and
\* awaits Scheduling.getSchedulingSnapshot().
StatsQueried(s) ==
    /\ tasks[s].pc = "gs_query"
    /\ \E ok \in BOOLEAN, total \in 0..MaxListed :
          \E suspended \in 0..total :
             SetTask(s, IF ~ok
                        THEN Settle(tasks[s], Rejected("tabs.query failed"))
                        ELSE [tasks[s] EXCEPT !.pc = "gs_snapshot",
                                 !.n = Tally(total, suspended, 0, 0),
                                 !.fx = @ \cup {"getSchedulingSnapshot"}])
    /\ UNCHANGED <<bulkVars, favStored, wdRun, wdSend, hist, winVars>>

\* After await Scheduling.getSchedulingSnapshot(): a rejection goes to the
\* catch; otherwise the statistics take scheduled from the snapshot's size,
\* and the loop passes over the tabs that are suspended or among the
\* snapshot's entries (passed: how many of the tabs that are not suspended it
\* passes over; the list of skipped tabs passes over a tab without id as
\* well) and awaits Suspension.shouldSkipTabForScheduling for the first of
\* the others (arg: how many of them are left); with no such tab the handler
\* returns.
StatsSnapshot(s) ==
    /\ tasks[s].pc = "gs_snapshot"
    /\ \E ok \in BOOLEAN, size \in 0..MaxListed,
          passed \in 0..(tasks[s].n.total - tasks[s].n.suspended) :
          LET t == [tasks[s] EXCEPT !.n.scheduled = size]
              left == t.n.total - t.n.suspended - passed
          IN  SetTask(s, IF ~ok
                         THEN Settle(tasks[s], Rejected("getSchedulingSnapshot failed"))
                         ELSE IF left = 0
                         THEN Settle(t, Resolved(StatsResp(t.request, t.n)))
                         ELSE [t EXCEPT !.pc = "gs_skip", !.arg = left,
                                  !.fx = @ \cup {"shouldSkipTabForScheduling"}])
    /\ UNCHANGED <<bulkVars, favStored, wdRun, wdSend, hist, winVars>>

\* After await Suspension.shouldSkipTabForScheduling(tab, true): a rejection
\* goes to the catch; otherwise the tab is counted when there is a reason to
\* skip it, and the loop awaits the call for the next tab or the handler
\* returns.
StatsChecked(s) ==
    /\ tasks[s].pc = "gs_skip"
    /\ \E ok \in BOOLEAN, skipReason \in BOOLEAN :
          LET t == [tasks[s] EXCEPT !.arg = @ - 1,
                       !.n.skipped = IF skipReason THEN @ + 1 ELSE @]
          IN  SetTask(s, IF ~ok
                         THEN Settle(tasks[s],
                                     Rejected("shouldSkipTabForScheduling failed"))
                         ELSE IF t.arg = 0
                         THEN Settle(t, Resolved(StatsResp(t.request, t.n)))
                         ELSE t)
    /\ UNCHANGED <<bulkVars, favStored, wdRun, wdSend, hist, winVars>>

\* MSG_RESET_BULK_OP_RUNNING after await State.setBulkOpRunning(false)
ResetDone(s) ==
    /\ tasks[s].pc = "rs_set"
    /\ \E writeOk \in BOOLEAN :
          /\ setBulkOpRunning_end(FALSE, writeOk)
          /\ hist' = HistSetEnd(hist, s, FALSE, writeOk)
          /\ SetTask(s, Settle(Failed(tasks[s], writeOk, "storage write failed"),
                               Resolved(SuccessResp)))
    /\ UNCHANGED <<favStored, wdRun, wdSend, winVars>>

(***************************************************************************)
(* The bulk operations of the suspension collaborator                      *)
(* (Suspension.suspendAllTabsAllSpecs and the like), as the specification  *)
(* describes them: a start is rejected while the bulk flag reads true;     *)
(* otherwise the flag is set (arming the watchdog), the tabs are           *)
(* processed, and on clean completion the flag is cleared.  The handler    *)
(* around them is handleMessage's: await the collaborator, return          *)
(* { success: true }, a failure being answered by handleAsyncMessage.      *)
(***************************************************************************)
\* await chrome.windows.getCurrent() of the in-window kinds
GetCurrentDone(s) ==
    /\ tasks[s].pc = "bs_getCurrent"
    /\ \E ok \in BOOLEAN, w \in Windows :
          SetTask(s, IF ~ok THEN Settle(tasks[s], Rejected("No current window"))
                     ELSE [tasks[s] EXCEPT !.pc = "bs_check", !.arg = w,
                                           !.fx = @ \cup {BulkCall(tasks[s].request.type)}])
    /\ UNCHANGED <<bulkVars, favStored, wdRun, wdSend, hist, winVars>>

\* The collaborator has read the flag through State.getBulkOpRunning(), whose
\* catch answers false when the storage read fails: it rejects when the
\* answer is true, and otherwise calls setBulkOpRunning(true).
BulkChecked(s) ==
    /\ tasks[s].pc = "bs_check"
    /\ \E readOk \in BOOLEAN :
          LET running == getBulkOpRunning(readOk)
              t == Failed(tasks[s], readOk, "storage read failed")
          IN  IF running
              THEN /\ SetTask(s, Settle(t, Rejected("Operation already running")))
                   /\ UNCHANGED <<bulkVars, hist>>
              ELSE /\ SetTask(s, [t EXCEPT !.pc = "bs_arm",
                                     !.fx = @ \cup {"setBulkOpRunning",
                                                    "storage.set:BULK_RUNNING"}])
                   /\ hist' = HistSetBegin(hist)
                   /\ setBulkOpRunning_begin
    /\ UNCHANGED <<favStored, wdRun, wdSend, winVars>>

\* setBulkOpRunning(true) has returned; the tabs are being processed.
BulkArmed(s) ==
    /\ tasks[s].pc = "bs_arm"
    /\ \E writeOk \in BOOLEAN :
          /\ setBulkOpRunning_end(TRUE, writeOk)
          /\ hist' = HistSetEnd(hist, s, TRUE, writeOk)
          /\ SetTask(s, [Failed(tasks[s], writeOk, "storage write failed")
                            EXCEPT !.pc = "bs_work"])
    /\ UNCHANGED <<favStored, wdRun, wdSend, winVars>>

\* The tabs were processed (the collaborator calls setBulkOpRunning(false)),
\* or processing failed (the failure propagates to the handler).
BulkWorked(s) ==
    /\ tasks[s].pc = "bs_work"
    /\ \E ok \in BOOLEAN :
          IF ok
          THEN /\ SetTask(s, [tasks[s] EXCEPT !.pc = "bs_clear"])
               /\ hist' = HistSetBegin(hist)
               /\ setBulkOpRunning_begin
          ELSE /\ SetTask(s, Settle(tasks[s], Rejected("Bulk operation failed")))
               /\ UNCHANGED <<bulkVars, hist>>
    /\ UNCHANGED <<favStored, wdRun, wdSend, winVars>>

\* setBulkOpRunning(false) has returned; the handler returns { success: true }.
BulkCleared(s) ==
    /\ tasks[s].pc = "bs_clear"
    /\ \E writeOk \in BOOLEAN :
          /\ setBulkOpRunning_end(FALSE, writeOk)
          /\ hist' = HistSetEnd(hist, s, FALSE, writeOk)
          /\ SetTask(s, Settle(Failed(tasks[s], writeOk, "storage write failed"),
                               Resolved(SuccessResp)))
    /\ UNCHANGED <<favStored, wdRun, wdSend, winVars>>

(***************************************************************************)
(* A call of the exported State.setBulkOpRunning(value) by another module  *)
(* of the extension (no message, no response).                             *)
(***************************************************************************)
CallSetBulkOpRunning(s, value) ==
    /\ Free(s)
    /\ SetTask(s, [IdleTask EXCEPT !.pc = "call_set", !.arg = IF value THEN 1 ELSE 0])
    /\ setBulkOpRunning_begin
    /\ hist' = HistSetBegin(hist)
    /\ UNCHANGED <<favStored, wdRun, wdSend, winVars>>

CallSetDone(s) ==
    /\ tasks[s].pc = "call_set"
    /\ \E writeOk \in BOOLEAN :
          /\ setBulkOpRunning_end(tasks[s].arg = 1, writeOk)
          /\ hist' = HistSetEnd(hist, s, tasks[s].arg = 1, writeOk)
    /\ SetTask(s, IdleTask)
    /\ UNCHANGED <<favStored, wdRun, wdSend, winVars>>

(***************************************************************************)
(* The watchdog: the setTimeout callback of setBulkOpRunning.              *)
(***************************************************************************)
\* BULK_OP_TIMEOUT_MS after it was armed, timer t fires: the callback logs and
\* issues its storage write.
TimerFire(t) ==
    /\ t \in timers
    /\ timers' = timers \ {t}
    /\ wdRun' = wdRun + 1
    /\ hist' = IF hist.act = "active" /\ hist.actTimer = t
               THEN [hist EXCEPT !.act = "elapsed"] ELSE hist
    /\ UNCHANGED <<bulkStored, bulkOpTimeoutId, favStored, tasks, wdSend, winVars>>

\* The callback after await chrome.storage.local.set(...): the flag is false,
\* bulkOpTimeoutId is null and the reset message is sent, the callback
\* awaiting chrome.runtime.sendMessage; or the write failed, and the outer
\* catch logs it.
WatchdogWritten ==
    /\ wdRun - wdSend > 0
    /\ \E writeOk \in BOOLEAN :
          IF writeOk
          THEN /\ bulkStored' = FALSE
               /\ bulkOpTimeoutId' = 0
               /\ wdSend' = wdSend + 1
               /\ hist' = [hist EXCEPT !.written.bulk = FALSE,
                                       !.restarted.bulk = FALSE,
                                       !.bcast = IF hist.act \in {"active", "elapsed"}
                                                 THEN @ + 1 ELSE @,
                                       !.late = @ \/ hist.clean,
                                       !.wd = "written"]
               /\ UNCHANGED wdRun
          ELSE /\ wdRun' = wdRun - 1
               /\ hist' = [hist EXCEPT !.wd = "unwritten"]
               /\ UNCHANGED <<bulkStored, bulkOpTimeoutId, wdSend>>
    /\ UNCHANGED <<timers, favStored, tasks, winVars>>

\* The callback after await chrome.runtime.sendMessage(...): the message was
\* received by a listener, or the promise was rejected (no listener) and the
\* inner catch logs it; the callback ends.
WatchdogSent ==
    /\ wdSend > 0
    /\ wdSend' = wdSend - 1
    /\ wdRun' = wdRun - 1
    /\ \E delivered \in BOOLEAN :
          hist' = IF hist.wd = "written"
                  THEN [hist EXCEPT !.wd = IF delivered THEN "delivered"
                                           ELSE "undelivered"]
                  ELSE hist
    /\ UNCHANGED <<bulkVars, favStored, tasks, winVars>>

\* Ten minutes pass since the activation whose timer the process no longer
\* holds (a pending timer fires instead: TimerFire).
TenMinutesElapse ==
    /\ hist.act = "active"
    /\ hist.actTimer \notin timers
    /\ hist' = [hist EXCEPT !.act = "elapsed"]
    /\ UNCHANGED <<bulkVars, favStored, tasks, wdRun, wdSend, winVars>>

(***************************************************************************)
(* MSG_REFRESH_ALL_SUSPENDED_FAVICONS (listeners.js, default branch).      *)
(***************************************************************************)
\* after await State.getFaviconRefreshRunning()
FavRead(s) ==
    /\ tasks[s].pc = "fr_read"
    /\ \E readOk \in BOOLEAN :
          LET running == getFaviconRefreshRunning(readOk)
              t == Failed(tasks[s], readOk, "storage read failed")
          IN  /\ SetTask(s, IF running
                            THEN Settle(t, Resolved(Resp("false",
                                        "Favicon refresh already running", NoData)))
                            ELSE [t EXCEPT !.pc = "fr_set",
                                     !.fx = @ \cup {"setFaviconRefreshRunning",
                                                    "storage.set:FAVICON_REFRESH_RUNNING"}])
              /\ hist' = HistGet(hist, "fav", readOk, running)
    /\ UNCHANGED <<bulkVars, favStored, wdRun, wdSend, winVars>>

\* after await State.setFaviconRefreshRunning(true): the progress message is
\* broadcast and chrome.tabs.query is issued.  fx notes whether the flag was
\* written.
FavSet(s) ==
    /\ tasks[s].pc = "fr_set"
    /\ \E writeOk \in BOOLEAN :
          /\ setFaviconRefreshRunning_end(TRUE, writeOk)
          /\ hist' = IF writeOk
                     THEN [hist EXCEPT !.written.fav = TRUE, !.restarted.fav = FALSE]
                     ELSE hist
          /\ SetTask(s, [Failed(tasks[s], writeOk, "storage write failed")
                            EXCEPT !.pc = "fr_query",
                                   !.fx = @ \cup {"broadcast:MSG_FAVICON_REFRESH_PROGRESS",
                                                  "tabs.query"}
                                           \cup (IF writeOk
                                                 THEN {"written:FAVICON_REFRESH_RUNNING"}
                                                 ELSE {})])
    /\ UNCHANGED <<bulkVars, wdRun, wdSend, winVars>>

\* after await chrome.tabs.query(...): a rejection goes to the finally block,
\* which issues setFaviconRefreshRunning(false).  Otherwise
\* reloadSuspendedTabsBatched(tabs) keeps the tabs with a numeric id (valid of
\* the total returned) and issues chrome.tabs.reload for them, all in its
\* first batch (batchSize 3); with no such tab it returns 0 at once and the
\* finally block runs.
FavQueried(s) ==
    /\ tasks[s].pc = "fr_query"
    /\ \E ok \in BOOLEAN, total \in 0..MaxReload :
          \E valid \in 0..total :
             SetTask(s, IF ~ok
                        THEN [tasks[s] EXCEPT !.pc = "fr_clear",
                                 !.err = "tabs.query failed",
                                 !.failed = "tabs.query failed",
                                 !.fx = @ \cup {"setFaviconRefreshRunning"}]
                        ELSE IF valid = 0
                        THEN [tasks[s] EXCEPT !.pc = "fr_clear", !.arg = total,
                                 !.fx = @ \cup {"setFaviconRefreshRunning"}]
                        ELSE [tasks[s] EXCEPT !.pc = "fr_reload", !.arg = total,
                                 !.todo = valid,
                                 !.fx = @ \cup {"tabs.reload"}])
    /\ UNCHANGED <<bulkVars, favStored, wdRun, wdSend, hist, winVars>>

\* after one chrome.tabs.reload of the batch settles: processed is counted
\* when it resolved, the failure is caught and logged when it rejected; once
\* every reload of the batch has settled, reloadSuspendedTabsBatched returns
\* processed and the finally block issues setFaviconRefreshRunning(false).
FavReloaded(s) ==
    /\ tasks[s].pc = "fr_reload"
    /\ \E ok \in BOOLEAN :
          LET t == [Failed(tasks[s], ok, "tabs.reload failed")
                       EXCEPT !.todo = @ - 1,
                              !.n.success = IF ok THEN @ + 1 ELSE @]
          IN  SetTask(s, IF t.todo > 0 THEN t
                         ELSE [t EXCEPT !.pc = "fr_clear",
                                  !.fx = @ \cup {"setFaviconRefreshRunning"}])
    /\ UNCHANGED <<bulkVars, favStored, wdRun, wdSend, hist, winVars>>

\* the finally block after await State.setFaviconRefreshRunning(false), whose
\* storage failure is caught inside the setter: the done message is
\* broadcast, and the handler returns { success, count, total } or rethrows
\* the failure of chrome.tabs.query.
FavCleared(s) ==
    /\ tasks[s].pc = "fr_clear"
    /\ \E writeOk \in BOOLEAN :
          /\ setFaviconRefreshRunning_end(FALSE, writeOk)
          /\ hist' = IF writeOk
                     THEN [hist EXCEPT !.written.fav = FALSE, !.restarted.fav = FALSE]
                     ELSE hist
          /\ LET t == [tasks[s] EXCEPT !.fx = @ \cup {"broadcast:MSG_FAVICON_REFRESH_DONE"}]
             IN  SetTask(s, Failed(IF t.err # ""
                                   THEN Settle(t, Rejected(t.err))
                                   ELSE Settle(t, Resolved(Resp("true", "absent",
                                            Data("refresh", t.n.success, t.arg, 0, 0)))),
                                   writeOk, "storage write failed"))
    /\ UNCHANGED <<bulkVars, wdRun, wdSend, winVars>>

\* Batched reloads in flight.
Reloading == {s \in Slots : tasks[s].pc = "fr_reload"}

(***************************************************************************)
(* State Store: window tracking (state.js).  The Map activeTabsByWindow is *)
(* a function on the windows, 0 standing for "no entry".                   *)
(***************************************************************************)
NoEntries == [w \in Windows |-> 0]

\* A setter that takes the sentinel like any window id.
updateLastFocusedWindow_any(lf, windowId) == windowId

updateLastFocusedWindow(lf, windowId) ==
    IF windowId # WINDOW_ID_NONE THEN windowId ELSE lf

\* A setter that keeps the entry a window already has.
setActiveTabForWindow_keepFirst(map, windowId, tabId) ==
    IF map[windowId] # 0 THEN map ELSE [map EXCEPT ![windowId] = tabId]

setActiveTabForWindow(map, windowId, tabId) ==
    [map EXCEPT ![windowId] = tabId]

getActiveTabForWindow(map, windowId) ==
    map[windowId]

\* removeWindowTracking without the reset of lastFocusedWindowId.
removeWindowTracking_keepFocus(map, lf, windowId) ==
    [map |-> [map EXCEPT ![windowId] = 0], lf |-> lf]

\* removeWindowTracking: the map and lastFocusedWindowId after it.
removeWindowTracking(map, lf, windowId) ==
    [map |-> [map EXCEPT ![windowId] = 0],
     lf |-> IF lf = windowId THEN WINDOW_ID_NONE ELSE lf]

\* The loop of cleanupStateReferences over the keys of the map, deleting those
\* that are not in windowIds (deleting from a Map while iterating its keys
\* skips nothing).
RECURSIVE CleanupLoop(_, _, _)
CleanupLoop(map, keys, windowIds) ==
    IF keys = {} THEN map
    ELSE LET k == CHOOSE x \in keys : \A y \in keys : x <= y
         IN  CleanupLoop(IF k \notin windowIds THEN [map EXCEPT ![k] = 0] ELSE map,
                         keys \ {k}, windowIds)

\* cleanupStateReferences with the comparison of its loop turned around: it
\* deletes the entries of the windows that are in windowIds.
cleanupStateReferences_dropLive(map, lf, windowIds, ok) ==
    IF ~ok THEN [map |-> map, lf |-> lf]
    ELSE [map |-> CleanupLoop(map, {w \in Windows : map[w] # 0},
                              Windows \ windowIds),
          lf |-> IF lf # WINDOW_ID_NONE /\ lf \notin windowIds
                 THEN WINDOW_ID_NONE ELSE lf]

\* cleanupStateReferences after await chrome.windows.getAll(): the map and
\* lastFocusedWindowId after it; a failure of getAll is caught and logged.
cleanupStateReferences(map, lf, windowIds, ok) ==
    IF ~ok THEN [map |-> map, lf |-> lf]
    ELSE [map |-> CleanupLoop(map, {w \in Windows : map[w] # 0}, windowIds),
          lf |-> IF lf # WINDOW_ID_NONE /\ lf \notin windowIds
                 THEN WINDOW_ID_NONE ELSE lf]

\* changeInfo of chrome.tabs.onUpdated: which of the properties the handler
\* looks at are there (status is "absent", "loading" or "complete").  A
\* change of anything else (the title, the favicon) has none of them.
ChangeInfo(url, audible, pinned, status) ==
    [url |-> url, audible |-> audible, pinned |-> pinned, status |-> status]
ChangeInfos ==
    {ChangeInfo(u, a, p, st) :
        u \in BOOLEAN, a \in BOOLEAN, p \in BOOLEAN,
        st \in {"absent", "loading", "complete"}}
NoChange == ChangeInfo(FALSE, FALSE, FALSE, "absent")

(***************************************************************************)
(* History of the window tracking.                                         *)
(*   last      the event handler that ran last, if it was a window removal *)
(*             (of window w) or a reconciliation sweep, else "other"       *)
(*   ok        whether the sweep was given a window list                   *)
(*   dropped   whether that handler deleted an entry of the map            *)
(*   reset     whether it reset lastFocusedWindowId                        *)
(*   lastAct   per window, the tab of the most recent activation event     *)
(*             since the process started and the window was last removed   *)
(* and of the tab removals: last is "handleTabRemoved" after the event     *)
(* (tab in window w, closing is removeInfo.isWindowClosing) and            *)
(* "TabRemovedQueried" after its query of the host (tab is the active tab  *)
(* the host reported, 0 for none; ok is false if the query failed).        *)
(* After a tab update last is "handleTabUpdated", tab and change are the   *)
(* event's tabId and changeInfo, ok is whether the event had its tab.      *)
(* After an answer of the host to handleTabActivated last is     *)
(* "ActivatedWindowGot" or "ActivatedPrevGot", got is the answer, policy   *)
(* is Preferences.prefs.neverSuspendLastWindow as the handler read it.     *)
(* After a step of handleWindowFocusChanged last is the step's name, w the *)
(* event's window, tab the active tab the host reported for it, policy the *)
(* preference, reports what the host said of the windows of the loop, and  *)
(* ok is false if the awaited call was rejected.                           *)
(* After a step of handleAlarmEvent alarm is the alarm's name; failed says *)
(* whether a call awaited by an alarm handler was rejected since the       *)
(* process started.  After a step of handleCommand got, tab and w are the  *)
(* host's answer about the active tab and log is the level of what the     *)
(* step logged ("warning", "error" or "none").                             *)
(***************************************************************************)
InitWhist ==
    [last |-> "none", w |-> 0, ok |-> TRUE, dropped |-> FALSE, reset |-> FALSE,
     lastAct |-> NoEntries, tab |-> 0, closing |-> FALSE, change |-> NoChange,
     got |-> "none", policy |-> FALSE, reports |-> {}, alarm |-> "",
     failed |-> FALSE, log |-> "none"]

Note(name) ==
    [InitWhist EXCEPT !.last = name, !.lastAct = whist.lastAct,
                      !.failed = whist.failed]
NoteOn(name, w, ok, r) ==
    [Note(name) EXCEPT !.w = w, !.ok = ok,
                       !.dropped = r.map # activeTabsByWindow,
                       !.reset = r.lf # lastFocusedWindowId]

(***************************************************************************)
(* An event handler in flight (the async function handed to                *)
(* Logger.withErrorHandling).                                              *)
(*   w, tab   the window and tab of the event                              *)
(*   prev     previousActiveTabId, previousFocusedWindow                   *)
(*   focused  isFocusedWindow                                              *)
(*   list     the windows chrome.windows.getAll() gave the sweep, or those *)
(*            of them the loop of the focus handler has yet to visit       *)
(***************************************************************************)
Evt(kind, pc, w, tab, prev, focused) ==
    [kind |-> kind, pc |-> pc, w |-> w, tab |-> tab, prev |-> prev,
     focused |-> focused, list |-> {}]
IdleEvt == Evt("idle", "idle", 0, 0, 0, FALSE)
\* A new handler takes the first free place.
FreeEvt(s) == evts[s].pc = "idle" /\ (s = "b" => evts["a"].pc # "idle")
SetEvt(s, e) == evts' = [evts EXCEPT ![s] = e]

msgState == <<bulkStored, favStored, bulkOpTimeoutId, timers, tasks, wdRun, wdSend, hist, rl>>
msgVars == <<msgState, sched>>

\* A call of a collaborator (Scheduling, Suspension, SessionManager, State,
\* chrome.tabs.create) made by an event handler.  sched holds the calls made
\* by the tab, focus, alarm and command handler that started last.
Call(op, arg) == [op |-> op, arg |-> arg]

\* chrome.windows.onCreated: handleWindowCreation only logs.
handleWindowCreation(w) ==
    /\ w \notin liveWindows
    /\ liveWindows' = liveWindows \cup {w}
    /\ whist' = Note("other")
    /\ UNCHANGED <<msgVars, lastFocusedWindowId, activeTabsByWindow, evts>>

\* chrome.tabs.onActivated, up to await chrome.windows.get(windowId)
handleTabActivated(s, tabId, windowId) ==
    /\ FreeEvt(s)
    /\ windowId \in liveWindows
    /\ LET previousActiveTabId == getActiveTabForWindow(activeTabsByWindow, windowId)
       IN  SetEvt(s, Evt("activated", "ta_window", windowId, tabId,
                         previousActiveTabId, FALSE))
    /\ activeTabsByWindow' = setActiveTabForWindow(activeTabsByWindow, windowId, tabId)
    /\ whist' = [Note("other") EXCEPT !.lastAct[windowId] = tabId]
    /\ UNCHANGED <<msgVars, lastFocusedWindowId, liveWindows>>

\* The rest of handleTabActivated once the new tab is (or is not) unscheduled:
\* the previous active tab is looked up, or the handler ends.  Of the locals
\* only previousActiveTabId is read from here on.
AfterUnschedule(e) ==
    IF e.prev # 0 /\ e.prev # e.tab
    THEN Evt("activated", "ta_prev", 0, 0, e.prev, FALSE)
    ELSE IdleEvt

\* after await chrome.windows.get(windowId): a window (focused or not), nothing,
\* or a rejection, for which the focus is taken from lastFocusedWindowId.
ActivatedWindowGot(s) ==
    /\ evts[s].pc = "ta_window"
    /\ \E got \in {"focused", "unfocused", "nothing", "reject"},
          neverSuspendLastWindow \in BOOLEAN :
          LET e == evts[s]
              isFocusedWindow ==
                  IF got = "reject" THEN e.w = lastFocusedWindowId ELSE got = "focused"
          IN  /\ SetEvt(s, IF got = "nothing" THEN IdleEvt
                            ELSE IF isFocusedWindow
                                    \/ (neverSuspendLastWindow
                                        /\ e.w = lastFocusedWindowId)
                            THEN [e EXCEPT !.pc = "ta_unschedule",
                                           !.focused = isFocusedWindow]
                            ELSE AfterUnschedule(e))
              /\ whist' = [Note("ActivatedWindowGot") EXCEPT
                              !.w = e.w, !.tab = e.tab, !.got = got,
                              !.policy = neverSuspendLastWindow]
    /\ UNCHANGED <<msgVars, lastFocusedWindowId, activeTabsByWindow, liveWindows>>

\* after await Scheduling.unscheduleTab(tabId); its failure ends the handler in
\* the outer catch.
ActivatedUnscheduled(s) ==
    /\ evts[s].pc = "ta_unschedule"
    /\ \E ok \in BOOLEAN :
          LET e == evts[s]
          IN  /\ SetEvt(s, IF ok THEN AfterUnschedule(e) ELSE IdleEvt)
              /\ lastFocusedWindowId' =
                    IF ok /\ e.focused
                    THEN updateLastFocusedWindow(lastFocusedWindowId, e.w)
                    ELSE lastFocusedWindowId
    /\ whist' = Note("other")
    /\ UNCHANGED <<msgVars, activeTabsByWindow, liveWindows>>

\* after await chrome.tabs.get(previousActiveTabId): the tab is rescheduled
\* unless it is missing or a suspended page.
ActivatedPrevGot(s) ==
    /\ evts[s].pc = "ta_prev"
    /\ \E got \in {"tab", "suspended", "nothing", "reject"} :
          /\ SetEvt(s, IF got = "tab" THEN [evts[s] EXCEPT !.pc = "ta_schedule"]
                       ELSE IdleEvt)
          /\ whist' = [Note("ActivatedPrevGot") EXCEPT !.tab = evts[s].prev, !.got = got]
    /\ UNCHANGED <<msgVars, lastFocusedWindowId, activeTabsByWindow, liveWindows>>

\* after await Scheduling.scheduleTab(previousActiveTabId, previousTab)
ActivatedScheduled(s) ==
    /\ evts[s].pc = "ta_schedule"
    /\ SetEvt(s, IdleEvt)
    /\ whist' = Note("other")
    /\ UNCHANGED <<msgVars, lastFocusedWindowId, activeTabsByWindow, liveWindows>>

\* chrome.windows.onRemoved: handleWindowRemoval.  After removeWindowTracking
\* the handler compares getLastFocusedWindow() with windowId and, when they are
\* equal, looks among chrome.windows.getAll() for a window to take its place
\* (updateLastFocusedWindow ignores WINDOW_ID_NONE).
handleWindowRemoval(windowId) ==
    /\ windowId \in liveWindows
    /\ liveWindows' = liveWindows \ {windowId}
    /\ LET r == removeWindowTracking(activeTabsByWindow, lastFocusedWindowId, windowId)
       IN  /\ activeTabsByWindow' = r.map
           /\ IF r.lf = windowId
              THEN \E next \in liveWindows' \cup {WINDOW_ID_NONE} :
                      lastFocusedWindowId' = updateLastFocusedWindow(r.lf, next)
              ELSE lastFocusedWindowId' = r.lf
    /\ whist' = [NoteOn("handleWindowRemoval", windowId, TRUE,
                        removeWindowTracking(activeTabsByWindow,
                                             lastFocusedWindowId, windowId))
                    EXCEPT !.lastAct[windowId] = 0]
    /\ UNCHANGED <<msgVars, evts>>

\* chrome.windows.onFocusChanged, up to await chrome.tabs.query(...); the
\* event with WINDOW_ID_NONE returns at once.
handleWindowFocusChanged(s, windowId) ==
    /\ FreeEvt(s)
    /\ windowId \in liveWindows \cup {WINDOW_ID_NONE}
    /\ IF windowId = WINDOW_ID_NONE
       THEN UNCHANGED <<lastFocusedWindowId, evts>>
       ELSE LET previousFocusedWindow == lastFocusedWindowId
            IN  /\ lastFocusedWindowId' =
                      updateLastFocusedWindow(lastFocusedWindowId, windowId)
                /\ SetEvt(s, Evt("focus", "wf_query", windowId, 0,
                                 previousFocusedWindow, FALSE))
    /\ sched' = {}
    /\ whist' = [Note("handleWindowFocusChanged") EXCEPT !.w = windowId]
    /\ UNCHANGED <<msgState, activeTabsByWindow, liveWindows>>

\* after await chrome.tabs.query({active, windowId}): no usable tab (0), or the
\* active tab, which is recorded before await Scheduling.unscheduleTab.
FocusQueried(s) ==
    /\ evts[s].pc = "wf_query"
    /\ \E ok \in BOOLEAN, tab \in Tabs \cup {0} :
          /\ IF ok /\ tab # 0
             THEN /\ activeTabsByWindow' =
                        setActiveTabForWindow(activeTabsByWindow, evts[s].w, tab)
                  /\ SetEvt(s, [evts[s] EXCEPT !.pc = "wf_unschedule", !.tab = tab])
                  /\ sched' = sched \cup {Call("unscheduleTab", tab)}
             ELSE /\ SetEvt(s, IdleEvt)
                  /\ UNCHANGED <<activeTabsByWindow, sched>>
          /\ whist' = [Note("FocusQueried") EXCEPT
                          !.w = evts[s].w, !.ok = ok, !.tab = IF ok THEN tab ELSE 0]
    /\ UNCHANGED <<msgState, lastFocusedWindowId, liveWindows>>

\* after await Scheduling.unscheduleTab(activeTab.id): the test of the policy
\* and of previousFocusedWindow, then await chrome.windows.getAll()
FocusUnscheduled(s) ==
    /\ evts[s].pc = "wf_unschedule"
    /\ \E ok \in BOOLEAN, neverSuspendLastWindow \in BOOLEAN :
          /\ SetEvt(s, IF ok /\ neverSuspendLastWindow
                          /\ evts[s].prev # WINDOW_ID_NONE
                       THEN [evts[s] EXCEPT !.pc = "wf_getAll"]
                       ELSE IdleEvt)
          /\ whist' = [Note("FocusUnscheduled") EXCEPT
                          !.w = evts[s].w, !.ok = ok, !.policy = neverSuspendLastWindow]
    /\ UNCHANGED <<msgVars, lastFocusedWindowId, activeTabsByWindow, liveWindows>>

\* What chrome.tabs.query({active, windowId}) says of a window in the loop of
\* handleWindowFocusChanged: its active tab (0 for none) and whether the
\* tab's url is that of the suspended page.
Report(w, tab, suspended) == [w |-> w, tab |-> tab, suspended |-> suspended]

\* The windows the loop does not skip (if (window.id === windowId) continue)
OtherWindows(allWindows, windowId) == allWindows \ {windowId}

\* The tabs the loop calls Scheduling.scheduleTab for.
Rescheduled(reports) ==
    {Call("scheduleTab", r.tab) : r \in {q \in reports : q.tab # 0 /\ ~q.suspended}}

\* after await chrome.windows.getAll(): a rejection ends the handler in the
\* outer catch, an empty list ends it with a warning; else the loop starts,
\* skips the focused window and awaits chrome.tabs.query for the first of the
\* others (list holds the windows of allWindows still to be visited).
FocusGotAll(s) ==
    /\ evts[s].pc = "wf_getAll"
    /\ \E ok \in BOOLEAN :
          LET allWindows == IF ok THEN liveWindows ELSE {}
              others == OtherWindows(allWindows, evts[s].w)
          IN  /\ SetEvt(s, IF others # {}
                           THEN [evts[s] EXCEPT !.pc = "wf_tabs", !.list = others]
                           ELSE IdleEvt)
              /\ whist' = [Note("FocusGotAll") EXCEPT !.w = evts[s].w, !.ok = ok]
    /\ UNCHANGED <<msgVars, lastFocusedWindowId, activeTabsByWindow, liveWindows>>

\* The handler after one turn of the loop: the next window's query is
\* awaited, or the loop is over.
NextTurn(e, left) ==
    IF left # {} THEN [e EXCEPT !.pc = "wf_tabs", !.list = left] ELSE IdleEvt

\* after await chrome.tabs.query({active: true, windowId: window.id}) of the
\* loop: the window's active tab is handed to Scheduling.scheduleTab, which is
\* awaited, unless there is none or it is a suspended page.  The host reports
\* tabs other than the focused window's active tab for the other windows.  A
\* rejection, or a tab without a url to look at, ends the loop in the outer
\* catch.
FocusTabsQueried(s) ==
    /\ evts[s].pc = "wf_tabs"
    /\ \E v \in evts[s].list, ok \in BOOLEAN,
          tab \in (Tabs \ {evts[s].tab}) \cup {0}, suspended \in BOOLEAN :
          LET report == Report(v, tab, suspended)
              left == evts[s].list \ {v}
          IN  /\ tab = 0 => ~suspended
              /\ ~ok => tab = 0
              /\ sched' = sched \cup Rescheduled({report})
              /\ SetEvt(s, IF ~ok THEN IdleEvt
                           ELSE IF Rescheduled({report}) # {}
                                THEN [evts[s] EXCEPT !.pc = "wf_schedule", !.list = left]
                                ELSE NextTurn(evts[s], left))
              /\ whist' = [Note("FocusTabsQueried") EXCEPT
                              !.w = evts[s].w, !.ok = ok, !.reports = {report}]
    /\ UNCHANGED <<msgState, lastFocusedWindowId, activeTabsByWindow, liveWindows>>

\* after await Scheduling.scheduleTab(tabs[0].id, tabs[0]) of the loop: the
\* next turn, or the outer catch if the call was rejected.
FocusScheduled(s) ==
    /\ evts[s].pc = "wf_schedule"
    /\ \E ok \in BOOLEAN :
          /\ SetEvt(s, IF ok THEN NextTurn(evts[s], evts[s].list) ELSE IdleEvt)
          /\ whist' = [Note("FocusScheduled") EXCEPT !.w = evts[s].w, !.ok = ok]
    /\ UNCHANGED <<msgVars, lastFocusedWindowId, activeTabsByWindow, liveWindows>>

\* The tab object of a tab event: missing, or a tab with its id (which may be
\* undefined or 0).
NoTab == [present |-> FALSE, id |-> Undefined]
TabObject(id) == [present |-> TRUE, id |-> id]
TabObjects == {NoTab} \cup {TabObject(id) : id \in Tabs \cup {0, Undefined}}

\* chrome.tabs.onCreated: handleTabCreated(tab)
handleTabCreated(tab) ==
    /\ sched' = IF tab.present /\ Truthy(tab.id)
                THEN {Call("scheduleTab", tab.id)}
                ELSE {}
    /\ whist' = Note("other")
    /\ UNCHANGED <<msgState, lastFocusedWindowId, activeTabsByWindow, liveWindows, evts>>

\* A handler that looks at the url and the load status only.
criticalChanges_urlOnly(changeInfo) == changeInfo.url

\* criticalChanges of handleTabUpdated
criticalChanges(changeInfo) ==
    changeInfo.url \/ changeInfo.audible \/ changeInfo.pinned

isInitialComplete(changeInfo) == changeInfo.status = "complete"

\* chrome.tabs.onUpdated: handleTabUpdated(tabId, changeInfo, tab), which
\* returns at once without a tab id or without the tab.
handleTabUpdated(tabId, changeInfo, tab) ==
    /\ sched' = IF Truthy(tabId) /\ tab.present
                   /\ (criticalChanges(changeInfo) \/ isInitialComplete(changeInfo))
                THEN {Call("scheduleTab", tabId)}
                ELSE {}
    /\ whist' = [Note("handleTabUpdated") EXCEPT !.tab = tabId, !.change = changeInfo,
                                                 !.ok = tab.present]
    /\ UNCHANGED <<msgState, lastFocusedWindowId, activeTabsByWindow, liveWindows, evts>>

\* chrome.tabs.onRemoved: Scheduling.removeTabSuspendTime(tabId), then the
\* handler up to await chrome.tabs.query(...)
handleTabRemoved(s, tabId, windowId, isWindowClosing) ==
    /\ FreeEvt(s)
    /\ windowId \in liveWindows
    /\ sched' = {Call("removeTabSuspendTime", tabId)}
    /\ SetEvt(s, IF ~isWindowClosing
                    /\ getActiveTabForWindow(activeTabsByWindow, windowId) = tabId
                 THEN Evt("removed", "tr_query", windowId, tabId, 0, FALSE)
                 ELSE IdleEvt)
    /\ whist' = [Note("handleTabRemoved") EXCEPT
                    !.w = windowId, !.tab = tabId, !.closing = isWindowClosing]
    /\ UNCHANGED <<msgState, lastFocusedWindowId, activeTabsByWindow, liveWindows>>

\* The map after await chrome.tabs.query({active, windowId}) of
\* handleTabRemoved: the new active tab is recorded; with none (tab = 0), or
\* a rejection of the query, the handler only logs.
TabRemovedEntry(map, windowId, ok, tab) ==
    IF ok /\ tab # 0 THEN setActiveTabForWindow(map, windowId, tab)
    ELSE map

\* The tabs the host may report as active: those of the events, and one that
\* no event of the model names.
QueriedTabs == 1..(MaxTab + 1)

\* after await chrome.tabs.query({active, windowId}); the removed tab is not
\* among the tabs the host reports.
TabRemovedQueried(s) ==
    /\ evts[s].pc = "tr_query"
    /\ \E ok \in BOOLEAN, tab \in (QueriedTabs \ {evts[s].tab}) \cup {0} :
          /\ activeTabsByWindow' =
                TabRemovedEntry(activeTabsByWindow, evts[s].w, ok, tab)
          /\ whist' = [Note("TabRemovedQueried") EXCEPT
                          !.w = evts[s].w, !.ok = ok,
                          !.tab = IF ok THEN tab ELSE 0]
    /\ SetEvt(s, IdleEvt)
    /\ UNCHANGED <<msgVars, lastFocusedWindowId, liveWindows>>

\* The names of the four alarms (the constants of Const), a name that is none
\* of them, and an alarm without a name.
AlarmNames ==
    {"TS_TAB_SCAN_ALARM_NAME", "TS_ALARM_CLEANUP_NAME", "TS_STATE_CLEANUP_NAME",
     "TS_SESSION_FREQUENT_SAVE"}
Alarms == AlarmNames \cup {"someOtherAlarm", ""}

\* A dispatcher that runs the scan on every named alarm.
AlarmCall_scanAlways(name) ==
    IF name = "" THEN [pc |-> "idle", calls |-> {}]
    ELSE [pc |-> "al_scan", calls |-> {Call("scanTabsForSuspension", 0)}]

\* The branch of handleAlarmEvent for an alarm name: the call its async
\* function makes first and the await it stops at ("idle": it is over).
AlarmCall(name) ==
    CASE name = "TS_TAB_SCAN_ALARM_NAME" ->
            [pc |-> "al_scan", calls |-> {Call("scanTabsForSuspension", 0)}]
      [] name = "TS_ALARM_CLEANUP_NAME" ->
            [pc |-> "idle", calls |-> {}]
      [] name = "TS_STATE_CLEANUP_NAME" ->
            [pc |-> "cl_getAll", calls |-> {Call("cleanupStateReferences", 0)}]
      [] name = "TS_SESSION_FREQUENT_SAVE" ->
            [pc |-> "al_enabled", calls |-> {Call("getAutoSaveEnabled", 0)}]
      [] OTHER -> [pc |-> "idle", calls |-> {}]

\* Logger.withErrorHandling(name, fn, component) once the promise of fn has
\* settled: a rejection is caught and logged, the handler is over either way.
withErrorHandling(ok) == IdleEvt

\* chrome.alarms.onAlarm: handleAlarmEvent(alarm), up to the first await of the
\* branch of alarm.name
handleAlarmEvent(s, name) ==
    /\ FreeEvt(s)
    /\ LET c == AlarmCall(name)
       IN  /\ SetEvt(s, IF c.pc = "idle" THEN IdleEvt
                        ELSE Evt("alarm", c.pc, 0, 0, 0, FALSE))
           /\ sched' = c.calls
    /\ whist' = [Note("handleAlarmEvent") EXCEPT !.alarm = name]
    /\ UNCHANGED <<msgState, lastFocusedWindowId, activeTabsByWindow, liveWindows>>

\* after await Scheduling.scanTabsForSuspension()
AlarmScanned(s) ==
    /\ evts[s].pc = "al_scan"
    /\ \E ok \in BOOLEAN :
          /\ SetEvt(s, withErrorHandling(ok))
          /\ whist' = [Note("AlarmScanned") EXCEPT
                          !.ok = ok, !.failed = whist.failed \/ ~ok]
    /\ UNCHANGED <<msgVars, lastFocusedWindowId, activeTabsByWindow, liveWindows>>

\* after await SessionManager.getAutoSaveEnabled(): the session is saved if
\* auto-save is enabled
AlarmEnabledGot(s) ==
    /\ evts[s].pc = "al_enabled"
    /\ \E got \in {"enabled", "disabled", "reject"} :
          /\ IF got = "enabled"
             THEN /\ SetEvt(s, [evts[s] EXCEPT !.pc = "al_save"])
                  /\ sched' = sched \cup {Call("saveCurrentSession", 0)}
             ELSE /\ SetEvt(s, withErrorHandling(got # "reject"))
                  /\ UNCHANGED sched
          /\ whist' = [Note("AlarmEnabledGot") EXCEPT
                          !.ok = got # "reject", !.got = got,
                          !.failed = whist.failed \/ got = "reject"]
    /\ UNCHANGED <<msgState, lastFocusedWindowId, activeTabsByWindow, liveWindows>>

\* after await SessionManager.saveCurrentSession(null, true)
AlarmSaved(s) ==
    /\ evts[s].pc = "al_save"
    /\ \E ok \in BOOLEAN :
          /\ SetEvt(s, withErrorHandling(ok))
          /\ whist' = [Note("AlarmSaved") EXCEPT
                          !.ok = ok, !.failed = whist.failed \/ ~ok]
    /\ UNCHANGED <<msgVars, lastFocusedWindowId, activeTabsByWindow, liveWindows>>

\* The commands of the manifest, and one that the handler does not know.
CommandNames ==
    {"suspend-current-tab", "unsuspend-current-tab", "suspend-all-window",
     "unsuspend-all-window", "suspend-all-tabs", "unsuspend-all-tabs",
     "open-settings"}
Commands == CommandNames \cup {"some-other-command"}

\* A switch whose default case opens the settings.
CommandCall_settingsByDefault(command, tabId, windowId) ==
    CASE command = "suspend-current-tab" -> {Call("suspendTab", tabId)}
      [] command = "unsuspend-current-tab" -> {Call("unsuspendTab", tabId)}
      [] command = "suspend-all-window" -> {Call("suspendAllTabsInWindow", windowId)}
      [] command = "unsuspend-all-window" -> {Call("unsuspendAllTabsInWindow", windowId)}
      [] command = "suspend-all-tabs" -> {Call("suspendAllTabsAllSpecs", 0)}
      [] command = "unsuspend-all-tabs" -> {Call("unsuspendAllTabsAllSpecs", 0)}
      [] OTHER -> {Call("tabs.create", 0)}

\* The switch of handleCommand for the active tab tabId of window windowId:
\* the call the command makes, if any (the cases for the current tab test
\* activeTab.id, those for the window activeTab.windowId).
CommandCall(command, tabId, windowId) ==
    CASE command = "suspend-current-tab" ->
            IF Truthy(tabId) THEN {Call("suspendTab", tabId)} ELSE {}
      [] command = "unsuspend-current-tab" ->
            IF Truthy(tabId) THEN {Call("unsuspendTab", tabId)} ELSE {}
      [] command = "suspend-all-window" ->
            IF Truthy(windowId) THEN {Call("suspendAllTabsInWindow", windowId)} ELSE {}
      [] command = "unsuspend-all-window" ->
            IF Truthy(windowId) THEN {Call("unsuspendAllTabsInWindow", windowId)} ELSE {}
      [] command = "suspend-all-tabs" -> {Call("suspendAllTabsAllSpecs", 0)}
      [] command = "unsuspend-all-tabs" -> {Call("unsuspendAllTabsAllSpecs", 0)}
      [] command = "open-settings" -> {Call("tabs.create", 0)}
      [] OTHER -> {}

\* chrome.commands.onCommand: handleCommand(command), up to
\* await chrome.tabs.query({active, currentWindow})
handleCommand(s, command) ==
    /\ FreeEvt(s)
    /\ SetEvt(s, Evt(command, "cmd_query", 0, 0, 0, FALSE))
    /\ sched' = {}
    /\ whist' = Note("handleCommand")
    /\ UNCHANGED <<msgState, lastFocusedWindowId, activeTabsByWindow, liveWindows>>

\* after the query: no active tab (a warning, and the handler is over), a
\* rejection (the catch logs an error and queries again), or the active tab
\* of the current window, for which the command's call is made.
CommandQueried(s) ==
    /\ evts[s].pc = "cmd_query"
    /\ \E got \in {"tab", "none", "reject"}, tabId \in Tabs \cup {0},
          windowId \in liveWindows \cup {0} :
          LET calls == CommandCall(evts[s].kind, tabId, windowId)
          IN  /\ (got = "tab") = (tabId # 0)
              /\ (got = "tab") = (windowId # 0)
              /\ SetEvt(s, IF got = "reject" THEN [evts[s] EXCEPT !.pc = "cmd_context"]
                           ELSE IF got = "none" \/ calls = {} THEN IdleEvt
                           ELSE [evts[s] EXCEPT !.pc = "cmd_call", !.tab = tabId,
                                                !.w = windowId])
              /\ sched' = IF got = "tab" THEN sched \cup calls ELSE sched
              /\ whist' = [Note("CommandQueried") EXCEPT
                              !.got = got, !.tab = tabId, !.w = windowId,
                              !.ok = got # "reject",
                              !.log = CASE got = "reject" -> "error"
                                        [] got = "none" -> "warning"
                                        [] got = "tab" /\ evts[s].kind \notin CommandNames
                                              -> "warning"
                                        [] OTHER -> "none"]
    /\ UNCHANGED <<msgState, lastFocusedWindowId, activeTabsByWindow, liveWindows>>

\* after the awaited call of the command: a rejection goes to the catch, which
\* logs an error and queries the active tab again.
CommandDone(s) ==
    /\ evts[s].pc = "cmd_call"
    /\ \E ok \in BOOLEAN :
          /\ SetEvt(s, IF ok THEN IdleEvt ELSE [evts[s] EXCEPT !.pc = "cmd_context"])
          /\ whist' = [Note("CommandDone") EXCEPT
                          !.ok = ok, !.log = IF ok THEN "none" ELSE "error"]
    /\ UNCHANGED <<msgVars, lastFocusedWindowId, activeTabsByWindow, liveWindows>>

\* after the query of the catch, whose own failure is logged too
CommandContext(s) ==
    /\ evts[s].pc = "cmd_context"
    /\ \E ok \in BOOLEAN :
          /\ SetEvt(s, IdleEvt)
          /\ whist' = [Note("CommandContext") EXCEPT
                          !.ok = ok, !.log = IF ok THEN "none" ELSE "error"]
    /\ UNCHANGED <<msgVars, lastFocusedWindowId, activeTabsByWindow, liveWindows>>

\* cleanupStateReferences once the window list is there, or getAll has failed
CleanupGotAll(s) ==
    /\ evts[s].pc = "cl_getAll"
    /\ \E ok \in BOOLEAN :
          LET windowIds == liveWindows
              r == cleanupStateReferences(activeTabsByWindow, lastFocusedWindowId,
                                          windowIds, ok)
          IN  /\ activeTabsByWindow' = r.map
              /\ lastFocusedWindowId' = r.lf
              /\ whist' = NoteOn("cleanupStateReferences", 0, ok, r)
    /\ SetEvt(s, IdleEvt)
    /\ UNCHANGED <<msgVars, liveWindows>>

\* The sweep in the two steps of its await.  The host answers
\* chrome.windows.getAll() with the windows that are there at that moment, or
\* rejects it (the catch logs and the sweep is over) ...
CleanupAnswered(s) ==
    /\ evts[s].pc = "cl_getAll"
    /\ \E ok \in BOOLEAN :
          SetEvt(s, IF ok THEN [evts[s] EXCEPT !.pc = "cl_got", !.list = liveWindows]
                    ELSE IdleEvt)
    /\ whist' = Note("other")
    /\ UNCHANGED <<msgVars, lastFocusedWindowId, activeTabsByWindow, liveWindows>>

\* ... and the continuation of the sweep runs with the list it was given,
\* after the events that the host delivered in between.
CleanupApplied(s) ==
    /\ evts[s].pc = "cl_got"
    /\ LET r == cleanupStateReferences(activeTabsByWindow, lastFocusedWindowId,
                                       evts[s].list, TRUE)
       IN  /\ activeTabsByWindow' = r.map
           /\ lastFocusedWindowId' = r.lf
           /\ whist' = NoteOn("CleanupApplied", 0, TRUE, r)
    /\ SetEvt(s, IdleEvt)
    /\ UNCHANGED <<msgVars, liveWindows>>

(***************************************************************************)
(* reloadSuspendedTabsBatched(tabs, batchSize, perTabDelayMs, batchDelayMs) *)
(* (listeners.js).  A descriptor is Item(isNumber, id): its id is a number  *)
(* (0 is falsy) or something else.  The descriptors are known by their      *)
(* position in tabs.                                                        *)
(*   valid      validTabs, as positions in tabs                             *)
(*   i          the loop variable                                           *)
(*   batch      the current batch, as positions in tabs                     *)
(*   st         per position: "none", "stagger" (waiting for its stagger    *)
(*              delay), "reload" (chrome.tabs.reload issued and pending),   *)
(*              "ok", "fail"                                                *)
(*   issued     per position, the calls of chrome.tabs.reload made for it   *)
(*   sizes      the lengths of the batches started so far                   *)
(*   waits      the inter-batch delays begun so far                         *)
(*   progress   the percentages of the progress lines logged so far         *)
(*   ret        the value returned                                          *)
(***************************************************************************)
Positions == 1..MaxInput
Descriptors(p) == {Item(TRUE, p), Item(TRUE, 0), Item(FALSE, p)}
Inputs ==
    UNION {{tabs \in [1..n -> UNION {Descriptors(p) : p \in Positions}] :
               \A p \in 1..n : tabs[p] \in Descriptors(p)} : n \in 0..MaxInput}

\* A filter that keeps every descriptor.
validTabs_all(tabs) ==
    [p \in 1..Len(tabs) |-> p]

\* tabs.filter(tab => tab.id && typeof tab.id === 'number')
RECURSIVE ValidFrom(_, _)
ValidFrom(tabs, p) ==
    IF p > Len(tabs) THEN <<>>
    ELSE (IF tabs[p].id # 0 /\ tabs[p].isNumber THEN <<p>> ELSE <<>>)
             \o ValidFrom(tabs, p + 1)
validTabs(tabs) ==
    ValidFrom(tabs, 1)

\* A slice that runs to the end of the array.
slice_rest(array, start, end) ==
    SubSeq(array, start + 1, Len(array))

\* array.slice(start, end), the indexes counted from 0
slice(array, start, end) ==
    SubSeq(array, start + 1, IF end < Len(array) THEN end ELSE Len(array))

IdleRun ==
    [pc |-> "idle", tabs |-> <<>>, batchSize |-> 1, perTabDelay |-> FALSE,
     batchDelay |-> FALSE, valid |-> <<>>, i |-> 0, batch |-> <<>>,
     st |-> [p \in Positions |-> "none"], issued |-> [p \in Positions |-> 0],
     sizes |-> <<>>, waits |-> 0, progress |-> <<>>, processed |-> 0,
     errors |-> 0, ret |-> 0]

\* The members of a batch whose stagger delay or reload is pending.
Staggering(r) == {k \in 1..Len(r.batch) : r.st[r.batch[k]] = "stagger"}
Unsettled(r) == {k \in 1..Len(r.batch) : r.st[r.batch[k]] \in {"stagger", "reload"}}

\* The head of the for loop with the body up to await Promise.allSettled: the
\* batch is sliced and every member either waits for its stagger delay
\* (index > 0 and perTabDelayMs > 0) or calls chrome.tabs.reload at once; past
\* the end of validTabs the function returns processed.
EnterLoop(r) ==
    IF r.i < Len(r.valid)
    THEN LET batch == slice(r.valid, r.i, r.i + r.batchSize)
             waits(k) == k > 1 /\ r.perTabDelay
         IN  [r EXCEPT !.pc = "batch", !.batch = batch,
                 !.sizes = Append(@, Len(batch)),
                 !.st = [p \in Positions |->
                           IF \E k \in 1..Len(batch) : batch[k] = p /\ waits(k)
                           THEN "stagger"
                           ELSE IF \E k \in 1..Len(batch) : batch[k] = p
                           THEN "reload" ELSE @[p]],
                 !.issued = [p \in Positions |->
                           IF \E k \in 1..Len(batch) : batch[k] = p /\ ~waits(k)
                           THEN @[p] + 1 ELSE @[p]]]
    ELSE [r EXCEPT !.pc = "done", !.batch = <<>>, !.ret = r.processed]

othVars == <<bulkStored, favStored, bulkOpTimeoutId, lastFocusedWindowId,
             activeTabsByWindow, timers, liveWindows, tasks, wdRun, wdSend, evts, hist,
             whist, sched>>

\* The call, up to the first await.
reloadSuspendedTabsBatched(tabs, batchSize, perTabDelay, batchDelay) ==
    /\ rl.pc = "idle"
    /\ rl' = EnterLoop([IdleRun EXCEPT !.tabs = tabs, !.batchSize = batchSize,
                           !.perTabDelay = perTabDelay, !.batchDelay = batchDelay,
                           !.valid = validTabs(tabs)])
    /\ UNCHANGED othVars

\* The stagger delay of member k of the batch is over (the delays grow with the
\* index): it calls chrome.tabs.reload.
StaggerElapsed(k) ==
    /\ rl.pc = "batch"
    /\ k \in Staggering(rl)
    /\ \A j \in Staggering(rl) : k <= j
    /\ rl' = [rl EXCEPT !.st[rl.batch[k]] = "reload", !.issued[rl.batch[k]] = @ + 1]
    /\ UNCHANGED othVars

\* chrome.tabs.reload of member k settles: processed++, or the catch: errors++.
ReloadSettled(k) ==
    /\ rl.pc = "batch"
    /\ k \in 1..Len(rl.batch)
    /\ rl.st[rl.batch[k]] = "reload"
    /\ \E ok \in BOOLEAN :
          rl' = IF ok
                THEN [rl EXCEPT !.st[rl.batch[k]] = "ok", !.processed = @ + 1]
                ELSE [rl EXCEPT !.st[rl.batch[k]] = "fail", !.errors = @ + 1]
    /\ UNCHANGED othVars

\* The k of 0..99 for which the double ((2k + 1) / 200) * 100 is below
\* k + 0.5 (14.499999999999998 for 0.145, and so for 0.285, 0.565 and 0.575);
\* for every other k it is k + 0.5 or just above.
HalvesBelow == {14, 28, 56, 57}

\* Math.round(((i + batch.length) / validTabs.length) * 100), in the doubles
\* of the language: the quotient rounded to the nearest integer, halves
\* upwards, but for a quotient of k + 0.5 percent whose double product falls
\* below the half (69 of 120 is logged as 57).
progress(i, batchLength, validLength) ==
    LET n == i + batchLength
        k == (100 * n) \div validLength
    IN  IF 200 * n = (2 * k + 1) * validLength /\ k \in HalvesBelow
        THEN k
        ELSE (200 * n + validLength) \div (2 * validLength)

\* The end of the loop body: the progress line is logged, i += batchSize, and
\* the loop goes on.
ProgressLogged(r) ==
    EnterLoop([r EXCEPT !.progress = Append(@, progress(r.i, Len(r.batch), Len(r.valid))),
                        !.i = @ + r.batchSize])

\* A delay after every batch, the last included.
WaitsBetween_afterEvery(i, batchSize, validLength, batchDelay) ==
    batchDelay

\* i + batchSize < validTabs.length && batchDelayMs > 0
WaitsBetween(i, batchSize, validLength, batchDelay) ==
    i + batchSize < validLength /\ batchDelay

\* after await Promise.allSettled(batchPromises): the inter-batch delay, or the
\* rest of the loop body.
BatchSettled ==
    /\ rl.pc = "batch"
    /\ Unsettled(rl) = {}
    /\ rl' = IF WaitsBetween(rl.i, rl.batchSize, Len(rl.valid), rl.batchDelay)
             THEN [rl EXCEPT !.pc = "delay", !.waits = @ + 1]
             ELSE ProgressLogged(rl)
    /\ UNCHANGED othVars

\* the inter-batch delay is over
BatchDelayElapsed ==
    /\ rl.pc = "delay"
    /\ rl' = ProgressLogged(rl)
    /\ UNCHANGED othVars

ReloadStep ==
    \/ \E k \in 1..MaxBatch : StaggerElapsed(k)
    \/ \E k \in 1..MaxBatch : ReloadSettled(k)
    \/ BatchSettled
    \/ BatchDelayElapsed

(***************************************************************************)
(* The hosting process is torn down and created again: the module          *)
(* variables are initialised anew, the handlers and timers in flight are   *)
(* gone, chrome.storage.local is as it was.                                *)
(***************************************************************************)
Restart ==
    /\ bulkOpTimeoutId' = 0
    /\ lastFocusedWindowId' = WINDOW_ID_NONE
    /\ activeTabsByWindow' = NoEntries
    /\ timers' = {}
    /\ wdRun' = 0
    /\ wdSend' = 0
    /\ tasks' = [s \in Slots |-> IdleTask]
    /\ evts' = [s \in Slots |-> IdleEvt]
    /\ rl' = IdleRun
    /\ hist' = [hist EXCEPT !.restarted = [bulk |-> TRUE, fav |-> TRUE]]
    /\ whist' = InitWhist
    /\ sched' = {}
    /\ UNCHANGED <<bulkStored, favStored, liveWindows>>

(***************************************************************************)
(* Initial state: a fresh installation, the process just started.          *)
(***************************************************************************)
Init ==
    /\ bulkStored = FALSE
    /\ favStored = FALSE
    /\ bulkOpTimeoutId = 0
    /\ lastFocusedWindowId = WINDOW_ID_NONE
    /\ activeTabsByWindow = NoEntries
    /\ timers = {}
    /\ liveWindows = {}
    /\ tasks = [s \in Slots |-> IdleTask]
    /\ wdRun = 0
    /\ wdSend = 0
    /\ evts = [s \in Slots |-> IdleEvt]
    /\ rl = IdleRun
    /\ hist = InitHist
    /\ whist = InitWhist
    /\ sched = {}

(***************************************************************************)
(* The message router alone: one request at a time, every kind of request  *)
(* from every kind of sender.                                              *)
(***************************************************************************)
HandlerStep(s) ==
    \/ Replied(s)
    \/ DeliveryFailed(s)
    \/ QueryDone(s)
    \/ SaveSettingsSaved(s)
    \/ SaveSettingsNotified(s)
    \/ SaveWhitelistSaved(s)
    \/ PrefsChangedScheduled(s)
    \/ PrefsChangedRescheduled(s)
    \/ SingleTabDone(s)
    \/ SelectedStep(s)
    \/ ClearCacheDone(s)
    \/ StatsQueried(s)
    \/ StatsSnapshot(s)
    \/ StatsChecked(s)
    \/ ResetDone(s)
    \/ GetCurrentDone(s)
    \/ BulkChecked(s)
    \/ BulkArmed(s)
    \/ BulkWorked(s)
    \/ BulkCleared(s)
    \/ FavRead(s)
    \/ FavSet(s)
    \/ FavQueried(s)
    \/ FavReloaded(s)
    \/ FavCleared(s)

\* The requests that lead to a call of setBulkOpRunning(true).
MayArm(request, sender) ==
    handleMessage(request, sender).pc \in {"bs_check", "bs_getCurrent"}

NextRouter ==
    \/ \E request \in Requests, sender \in Senders :
          /\ MayArm(request, sender) => CanArm
          /\ Receive("a", request, sender)
    \/ HandlerStep("a")
    \/ Forget("a")

SpecRouter == Init /\ [][NextRouter]_vars

(***************************************************************************)
(* The bulk flag and its watchdog: two overlapping activations, the timer, *)
(* and restarts of the process.                                            *)
(***************************************************************************)
BulkRequests ==
    {Plain("MSG_RESET_BULK_OP_RUNNING"), Plain("MSG_SUSPEND_ALL_TABS_ALL_SPECS")}

BulkStep(s) ==
    \/ ResetDone(s)
    \/ BulkChecked(s)
    \/ BulkArmed(s)
    \/ BulkWorked(s)
    \/ BulkCleared(s)
    \/ CallSetDone(s)

NextBulk ==
    \/ \E s \in Slots, request \in BulkRequests :
          /\ MayArm(request, PopupSender) => CanArm
          /\ Receive(s, request, PopupSender)
    \/ \E s \in Slots : CanArm /\ CallSetBulkOpRunning(s, TRUE)
    \/ \E s \in Slots : BulkStep(s)
    \/ \E s \in Slots : Forget(s)
    \/ \E t \in TimerIds : TimerFire(t)
    \/ WatchdogWritten
    \/ WatchdogSent
    \/ TenMinutesElapse
    \/ Restart

SpecBulk == Init /\ [][NextBulk]_vars

(***************************************************************************)
(* The favicon refresh: two overlapping requests, and restarts.            *)
(***************************************************************************)
FavStep(s) ==
    \/ FavRead(s)
    \/ FavSet(s)
    \/ FavQueried(s)
    \/ FavReloaded(s)
    \/ FavCleared(s)

NextFavicon ==
    \/ \E s \in Slots :
          Receive(s, Plain("MSG_REFRESH_ALL_SUSPENDED_FAVICONS"), PopupSender)
    \/ \E s \in Slots : FavStep(s)
    \/ \E s \in Slots : Forget(s)
    \/ Restart

SpecFavicon == Init /\ [][NextFavicon]_vars

(***************************************************************************)
(* The durable flags as one process after another sees them: the setters,  *)
(* the getters, the watchdog and restarts, one call at a time.             *)
(***************************************************************************)
FlagRequests ==
    {Plain("IS_BULK_OP_RUNNING"), Plain("MSG_RESET_BULK_OP_RUNNING"),
     Plain("MSG_REFRESH_ALL_SUSPENDED_FAVICONS")}

NextFlags ==
    \/ \E request \in FlagRequests : Receive("a", request, PopupSender)
    \/ \E value \in BOOLEAN :
          /\ value => CanArm
          /\ CallSetBulkOpRunning("a", value)
    \/ QueryDone("a")
    \/ ResetDone("a")
    \/ CallSetDone("a")
    \/ FavStep("a")
    \/ Forget("a")
    \/ \E t \in TimerIds : TimerFire(t)
    \/ WatchdogWritten
    \/ WatchdogSent
    \/ Restart

SpecFlags == Init /\ [][NextFlags]_vars

(***************************************************************************)
(* Tab activations and window removals alone, two handlers in flight.      *)
(***************************************************************************)
ActivationStep(s) ==
    \/ ActivatedWindowGot(s)
    \/ ActivatedUnscheduled(s)
    \/ ActivatedPrevGot(s)
    \/ ActivatedScheduled(s)

NextActivation ==
    \/ \E w \in Windows : handleWindowCreation(w)
    \/ \E s \in Slots, tabId \in Tabs, w \in Windows : handleTabActivated(s, tabId, w)
    \/ \E s \in Slots : ActivationStep(s)
    \/ \E w \in Windows : handleWindowRemoval(w)

SpecActivation == Init /\ [][NextActivation]_vars

(***************************************************************************)
(* Tab activations one at a time; a handler in flight goes on: the host    *)
(* settles every call the handler awaits.                                  *)
(***************************************************************************)
NextPrevious ==
    \/ \E w \in Windows : handleWindowCreation(w)
    \/ \E tabId \in Tabs, w \in Windows : handleTabActivated("a", tabId, w)
    \/ ActivationStep("a")
    \/ \E w \in Windows : handleWindowRemoval(w)

SpecPrevious ==
    Init /\ [][NextPrevious]_vars /\ WF_vars(ActivationStep("a"))

(***************************************************************************)
(* All the writers of the window tracking, one handler at a time, and      *)
(* restarts of the process.                                                *)
(***************************************************************************)
NextWindows ==
    \/ \E w \in Windows : handleWindowCreation(w)
    \/ \E tabId \in Tabs, w \in Windows : handleTabActivated("a", tabId, w)
    \/ ActivationStep("a")
    \/ \E w \in Windows : handleWindowRemoval(w)
    \/ \E w \in Windows \cup {WINDOW_ID_NONE} : handleWindowFocusChanged("a", w)
    \/ FocusQueried("a")
    \/ FocusUnscheduled("a")
    \/ FocusGotAll("a")
    \/ FocusTabsQueried("a")
    \/ FocusScheduled("a")
    \/ \E tabId \in Tabs, w \in Windows, isWindowClosing \in BOOLEAN :
          handleTabRemoved("a", tabId, w, isWindowClosing)
    \/ TabRemovedQueried("a")
    \/ handleAlarmEvent("a", "TS_STATE_CLEANUP_NAME")
    \/ CleanupGotAll("a")
    \/ Restart

SpecWindows == Init /\ [][NextWindows]_vars

(***************************************************************************)
(* The alarms, with tab activations and the creation and removal of        *)
(* windows between them, one handler at a time.                            *)
(***************************************************************************)
AlarmStep(s) ==
    \/ AlarmScanned(s)
    \/ AlarmEnabledGot(s)
    \/ AlarmSaved(s)
    \/ CleanupGotAll(s)

NextAlarms ==
    \/ \E w \in Windows : handleWindowCreation(w)
    \/ \E name \in Alarms : handleAlarmEvent("a", name)
    \/ AlarmStep("a")
    \/ \E tabId \in Tabs, w \in Windows : handleTabActivated("a", tabId, w)
    \/ ActivationStep("a")
    \/ \E w \in Windows : handleWindowRemoval(w)

SpecAlarms == Init /\ [][NextAlarms]_vars

(***************************************************************************)
(* The keyboard commands, one at a time, while windows come and go.        *)
(***************************************************************************)
NextCommands ==
    \/ \E w \in Windows : handleWindowCreation(w)
    \/ \E command \in Commands : handleCommand("a", command)
    \/ CommandQueried("a")
    \/ CommandDone("a")
    \/ CommandContext("a")
    \/ \E w \in Windows : handleWindowRemoval(w)

SpecCommands == Init /\ [][NextCommands]_vars

(***************************************************************************)
(* The tab events (created, updated, removed, activated) and the creation  *)
(* and removal of windows, one handler at a time.                          *)
(***************************************************************************)
NextTabs ==
    \/ \E w \in Windows : handleWindowCreation(w)
    \/ \E tabId \in Tabs, w \in Windows, isWindowClosing \in BOOLEAN :
          handleTabRemoved("a", tabId, w, isWindowClosing)
    \/ TabRemovedQueried("a")
    \/ \E tabId \in Tabs, w \in Windows : handleTabActivated("a", tabId, w)
    \/ ActivationStep("a")
    \/ \E w \in Windows : handleWindowRemoval(w)

SpecTabs == Init /\ [][NextTabs]_vars

\* Tabs are created and updated while tabs are activated: the two handlers
\* run to their end between the steps of a handler that is waiting.
NextUpdates ==
    \/ \E w \in Windows : handleWindowCreation(w)
    \/ \E tab \in TabObjects : handleTabCreated(tab)
    \/ \E tabId \in Tabs \cup {0}, changeInfo \in ChangeInfos :
          \E tab \in {NoTab, TabObject(tabId)} : handleTabUpdated(tabId, changeInfo, tab)
    \/ \E tabId \in Tabs, w \in Windows : handleTabActivated("a", tabId, w)
    \/ ActivationStep("a")

SpecUpdates == Init /\ [][NextUpdates]_vars

(***************************************************************************)
(* The preference-saving requests with a response channel that may be      *)
(* closed when the response is sent: two requests in flight.               *)
(***************************************************************************)
SaveRequests ==
    {[Plain("MSG_SAVE_SETTINGS") EXCEPT !.settings = v] : v \in SettingsValues}
    \cup {[Plain("MSG_SAVE_WHITELIST") EXCEPT !.newWhitelist = v] : v \in WhitelistValues}

SaveStep(s) ==
    \/ Replied(s)
    \/ SaveSettingsSaved(s)
    \/ SaveSettingsNotified(s)
    \/ SaveWhitelistSaved(s)
    \/ DeliveryFailed(s)

NextDelivery ==
    \/ \E s \in Slots, request \in SaveRequests : Receive(s, request, PopupSender)
    \/ \E s \in Slots : SaveStep(s)
    \/ \E s \in Slots : Forget(s)

SpecDelivery == Init /\ [][NextDelivery]_vars

(***************************************************************************)
(* One run of reloadSuspendedTabsBatched, on every input.                  *)
(***************************************************************************)
NextReload ==
    \/ /\ rl.pc = "idle"
       /\ \E tabs \in Inputs, batchSize \in 1..MaxBatch,
             perTabDelay \in BOOLEAN, batchDelay \in BOOLEAN :
             reloadSuspendedTabsBatched(tabs, batchSize, perTabDelay, batchDelay)
    \/ ReloadStep

SpecReload == Init /\ [][NextReload]_vars

\* Tab removals overlapping with activations and with window removals: the
\* handlers of slot "a" start when no other handler is in flight, and while
\* the query of handleTabRemoved is pending the host delivers activations,
\* handled in slot "b", and window removals.
NextOverlap ==
    \/ \E w \in Windows : handleWindowCreation(w)
    \/ /\ evts["b"].pc = "idle"
       /\ \E tabId \in Tabs, w \in Windows, isWindowClosing \in BOOLEAN :
             handleTabRemoved("a", tabId, w, isWindowClosing)
    \/ TabRemovedQueried("a")
    \/ /\ evts["b"].pc = "idle"
       /\ \E tabId \in Tabs, w \in Windows : handleTabActivated("a", tabId, w)
    \/ /\ evts["a"].pc = "tr_query"
       /\ \E tabId \in Tabs, w \in Windows : handleTabActivated("b", tabId, w)
    \/ \E s \in Slots : ActivationStep(s)
    \/ \E w \in Windows : handleWindowRemoval(w)

SpecOverlap == Init /\ [][NextOverlap]_vars

\* The reconciliation sweep (slot "a") overlapping with the events the host
\* delivers between its answer to chrome.windows.getAll() and the sweep's
\* continuation: window creations and removals, and activations and focus
\* changes handled in slot "b".  The activations of slot "a" start when no
\* other handler is in flight.
NextSweep ==
    \/ \E w \in Windows : handleWindowCreation(w)
    \/ \E w \in Windows : handleWindowRemoval(w)
    \/ /\ evts["b"].pc = "idle"
       /\ \E tabId \in Tabs, w \in Windows : handleTabActivated("a", tabId, w)
    \/ /\ evts["b"].pc = "idle"
       /\ handleAlarmEvent("a", "TS_STATE_CLEANUP_NAME")
    \/ CleanupAnswered("a")
    \/ CleanupApplied("a")
    \/ /\ evts["a"].pc = "cl_got"
       /\ \E tabId \in Tabs, w \in Windows : handleTabActivated("b", tabId, w)
    \/ /\ evts["a"].pc = "cl_got"
       /\ \E w \in Windows : handleWindowFocusChanged("b", w)
    \/ \E s \in Slots : ActivationStep(s)
    \/ FocusQueried("b")
    \/ FocusUnscheduled("b")
    \/ FocusGotAll("b")
    \/ FocusTabsQueried("b")
    \/ FocusScheduled("b")

SpecSweep == Init /\ [][NextSweep]_vars

\* The favicon refresh under the scheduling the host guarantees: every call a
\* handler awaits returns (weak fairness of the handlers' steps); requests and
\* restarts are not forced.
SpecFaviconFair ==
    /\ Init
    /\ [][NextFavicon]_vars
    /\ WF_vars(\E s \in Slots : FavStep(s))

(***************************************************************************)
(* The bulk flag and its watchdog under fair scheduling: a pending timer   *)
(* fires, the callback's storage write returns, and so does every call a   *)
(* handler awaits.  Requests, restarts and the passing of ten minutes      *)
(* without a timer are under no obligation to happen.                      *)
(***************************************************************************)
SpecBulkFair ==
    /\ Init
    /\ [][NextBulk]_vars
    /\ WF_vars(\E t \in TimerIds : TimerFire(t))
    /\ WF_vars(WatchdogWritten)
    /\ WF_vars(WatchdogSent)
    /\ WF_vars(\E s \in Slots : BulkStep(s))

(***************************************************************************)
(* Properties.                                                             *)
(***************************************************************************)
Pending(t) == t.pc \notin {"idle", "done"}

\* C1 (SpecRouter): for every request given to handleMessage, whatever its
\* type and sender and however the awaited calls turn out, sendResponse is
\* invoked exactly once: not at all while the handler still waits (and then a
\* step of the handler is always possible), once when it has settled.
C1_ExactlyOneResponse ==
    \A s \in Slots :
        /\ tasks[s].nresp <= 1
        /\ tasks[s].pc = "done" => tasks[s].nresp = 1
        /\ Pending(tasks[s]) => tasks[s].nresp = 0 /\ tasks[s].ret /\ ENABLED HandlerStep(s)

\* The sender resolves to the extension's own origin.
OwnOrigin(sender) ==
    /\ sender.id = RuntimeId
    /\ sender.url # NoUrl
    /\ startsWith(sender.url, ExtensionOrigin)

\* C2 (SpecRouter): a request of a privileged kind whose sender does not
\* resolve to the extension's own origin is answered with "Permission denied"
\* and causes no collaborator call, no storage write and no State Store call.
C2_PrivilegedKindsDenied ==
    \A s \in Slots :
        LET t == tasks[s]
        IN  (/\ t.pc # "idle"
             /\ ~t.request.isNull
             /\ t.request.type \in PrivilegedKinds
             /\ ~OwnOrigin(t.sender))
            => /\ t.pc = "done"
               /\ t.resp = ErrorResp("Permission denied")
               /\ t.fx = {}

\* C3 (SpecBulk): once setBulkOpRunning(true) has completed and ten minutes
\* have passed with no further call of setBulkOpRunning (and no watchdog
\* callback is still running), the stored flag is false and exactly one reset
\* broadcast has been attempted.
C3_WatchdogClearsOnce ==
    (hist.act = "elapsed" /\ wdRun = 0)
        => (bulkStored = FALSE /\ hist.bcast = 1)

\* C4 (SpecBulkFair): whenever the bulk flag is stored true, it is eventually
\* stored false (so that a caller polling it eventually reads false), with no
\* clearing call required and across restarts of the process.
C4_FlagEventuallyFalse ==
    bulkStored ~> ~bulkStored

C6_OneReloadInFlight ==
    Cardinality(Reloading) <= 1

\* C7, as stated (SpecFlags): what a getter returns after a restart of the
\* process is the last value written to its flag before the restart.
C7_GetterReturnsLastWritten ==
    (hist.obs.flag # "none" /\ hist.obs.afterRestart)
        => hist.obs.result = hist.obs.expect

\* C7, amended (SpecFlags): for both flags, before and after a restart, a
\* getter whose storage read succeeds returns the last value written, whatever
\* the process-local state; a getter whose storage read fails returns false.
C7_GetterReadsThrough ==
    hist.obs.flag # "none"
        => hist.obs.result = (IF hist.obs.ok THEN hist.obs.expect ELSE FALSE)

\* The bulk getter has returned true in a process that started after the flag
\* was written, and that holds no watchdog handle.
C7_Witness ==
    /\ hist.obs = Obs("bulk", TRUE, TRUE, TRUE, TRUE)
    /\ bulkOpTimeoutId = 0
    /\ tasks["a"].pc = "done"
    /\ tasks["a"].resp.data.a = 1

\* C8 (SpecActivation): after every event, and every step of a handler,
\* getActiveTabForWindow(w) is the tab of the most recent activation of w, and
\* is absent if w was never activated or was removed since.
C8_ActiveTabIsLastActivation ==
    \A w \in Windows :
        getActiveTabForWindow(activeTabsByWindow, w) = whist.lastAct[w]

\* A window's entry was dropped by its removal while another window, activated
\* more than once, keeps the tab of its last activation and a handler of an
\* activation is still in flight.
C8_Witness ==
    /\ whist.last = "handleWindowRemoval"
    /\ whist.dropped
    /\ \E v \in Windows \ {whist.w} :
          /\ whist.lastAct[v] = 2
          /\ \E s \in Slots : evts[s].pc = "ta_prev" /\ evts[s].prev = 1

\* C9 (SpecWindows): the removal of window w leaves w without an entry, resets
\* lastFocusedWindowId to WINDOW_ID_NONE if it was w and leaves it alone
\* otherwise, and leaves the entries of all other windows alone.
C9_WindowRemovalDropsTracking ==
    [][\A w \in Windows :
          (w \in liveWindows /\ w \notin liveWindows')
          => /\ getActiveTabForWindow(activeTabsByWindow', w) = 0
             /\ lastFocusedWindowId' =
                   (IF lastFocusedWindowId = w THEN WINDOW_ID_NONE
                    ELSE lastFocusedWindowId)
             /\ \A v \in Windows \ {w} :
                   activeTabsByWindow'[v] = activeTabsByWindow[v]]_vars

\* The last focused window, which had an entry, was removed, while another
\* window has an entry.
C9_Witness ==
    /\ whist.last = "handleWindowRemoval"
    /\ whist.dropped
    /\ whist.reset
    /\ \E v \in Windows \ {whist.w} : activeTabsByWindow[v] # 0

\* C10 (SpecWindows): the reconciliation sweep, given the live windows L,
\* leaves the map restricted to L with the values unchanged, and resets
\* lastFocusedWindowId exactly when it is not WINDOW_ID_NONE and not in L; if
\* the window list cannot be read, nothing changes.
C10_SweepRestrictsToLive ==
    [][whist'.last = "cleanupStateReferences"
          => IF whist'.ok
             THEN /\ activeTabsByWindow' =
                        [w \in Windows |-> IF w \in liveWindows
                                           THEN activeTabsByWindow[w] ELSE 0]
                  /\ lastFocusedWindowId' =
                        (IF lastFocusedWindowId # WINDOW_ID_NONE
                            /\ lastFocusedWindowId \notin liveWindows
                         THEN WINDOW_ID_NONE ELSE lastFocusedWindowId)
             ELSE /\ activeTabsByWindow' = activeTabsByWindow
                  /\ lastFocusedWindowId' = lastFocusedWindowId]_vars

\* A sweep has deleted the entry of a window that is gone and kept the entry of
\* a live window, which is also the last focused one.
C10_Witness ==
    /\ whist.last = "cleanupStateReferences"
    /\ whist.ok
    /\ whist.dropped
    /\ ~whist.reset
    /\ lastFocusedWindowId \in liveWindows
    /\ activeTabsByWindow[lastFocusedWindowId] # 0

\* The descriptor carries a valid numeric identifier.
IsValid(d) == d.isNumber /\ d.id # 0
ValidPositions(tabs) == {p \in 1..Len(tabs) : IsValid(tabs[p])}

\* C11 (SpecReload): whatever the input and whichever reloads fail,
\* reloadSuspendedTabsBatched calls chrome.tabs.reload at most once per
\* descriptor and only for valid ones; while it runs a step of it is always
\* possible; and when it returns, every valid descriptor has had exactly one
\* reload, the value returned is the number of reloads that succeeded, and
\* succeeded + failed is the number of valid descriptors.
C11_ReloadEachValidOnce ==
    /\ \A p \in Positions :
          /\ rl.issued[p] <= 1
          /\ rl.issued[p] = 1 => p \in ValidPositions(rl.tabs)
    /\ rl.pc \in {"batch", "delay"} => ENABLED ReloadStep
    /\ rl.pc = "done" =>
          /\ \A p \in ValidPositions(rl.tabs) :
                rl.issued[p] = 1 /\ rl.st[p] \in {"ok", "fail"}
          /\ rl.ret = Cardinality({p \in Positions : rl.st[p] = "ok"})
          /\ rl.errors = Cardinality({p \in Positions : rl.st[p] = "fail"})
          /\ rl.ret + rl.errors = Cardinality(ValidPositions(rl.tabs))

\* A run has returned 1 for an input with an invalid descriptor, a reload that
\* failed in the first batch, and a reload that succeeded in a later batch.
C11_Witness ==
    /\ rl.pc = "done"
    /\ rl.ret = 1
    /\ Len(rl.sizes) >= 2
    /\ ValidPositions(rl.tabs) # 1..Len(rl.tabs)
    /\ rl.st[rl.valid[1]] = "fail"
    /\ rl.st[rl.valid[Len(rl.valid)]] = "ok"

\* The sizes of the chunks of n descriptors.
RECURSIVE ChunkSizes(_, _)
ChunkSizes(n, batchSize) ==
    IF n = 0 THEN <<>>
    ELSE IF n <= batchSize THEN <<n>>
    ELSE <<batchSize>> \o ChunkSizes(n - batchSize, batchSize)

\* C12 (SpecReload): the valid descriptors are taken in input order and cut
\* into consecutive chunks of batchSize, the last holding the remainder; the
\* batch in progress is the chunk whose turn it is; and no reload of a chunk
\* is issued before every member of the chunks before it has settled.
C12_ChunksInOrder ==
    rl.pc # "idle" =>
        LET V == rl.valid
            b == rl.batchSize
            expected == ChunkSizes(Cardinality(ValidPositions(rl.tabs)), b)
            c == Len(rl.sizes)
        IN  /\ {V[k] : k \in 1..Len(V)} = ValidPositions(rl.tabs)
            /\ \A j, k \in 1..Len(V) : j < k => V[j] < V[k]
            /\ c <= Len(expected)
            /\ \A x \in 1..c : rl.sizes[x] = expected[x]
            /\ rl.pc = "done" => rl.sizes = expected
            /\ rl.pc = "batch" =>
                  rl.batch = [k \in 1..expected[c] |-> V[(c - 1) * b + k]]
            /\ \A j, k \in 1..Len(V) :
                  ((j - 1) \div b < (k - 1) \div b /\ rl.issued[V[k]] > 0)
                      => rl.st[V[j]] \in {"ok", "fail"}

\* Five valid descriptors were reloaded with batchSize 2 in chunks of 2, 2, 1.
C12_Witness ==
    /\ rl.pc = "done"
    /\ rl.batchSize = 2
    /\ rl.sizes = <<2, 2, 1>>


\* The two response shapes of the response invariant.
SuccessShape(resp) == resp.success = "true" /\ resp.error = "absent"
ErrorShape(resp) == resp.success = "absent" /\ resp.error # "absent"

\* C13 (SpecRouter): every response handleMessage sends has exactly one of
\* the shapes {success: true, ...} and {error: <string>}: never neither, never
\* both, and never success with a value other than true.
C13_ResponseShape ==
    \A s \in Slots :
        tasks[s].nresp > 0 =>
            SuccessShape(tasks[s].resp) \/ ErrorShape(tasks[s].resp)


\* The kinds handleMessage recognizes: the status query, the case labels of
\* its switch and the utility kinds of the default branch.
RecognizedKinds ==
    {"IS_BULK_OP_RUNNING", "MSG_SUSPEND_TAB"} \cup ValidatedKinds \cup ToolKinds

\* The State Store and the host resources a message handler can change.
storeVars ==
    <<bulkStored, favStored, bulkOpTimeoutId, timers, lastFocusedWindowId,
      activeTabsByWindow>>

\* C14 (SpecRouter): when handleMessage receives a request whose type is
\* present but not a recognized kind, from any sender, it has answered
\* {error: "Unknown message type"} when it returns (once, returning false),
\* has made no collaborator call and has changed neither the stored flags,
\* the watchdog timer nor the window tracking.
C14_UnknownTypeAnswered ==
    [][\A s \in Slots :
          (/\ tasks[s].pc = "idle"
           /\ tasks'[s].pc # "idle"
           /\ ~tasks'[s].request.isNull
           /\ tasks'[s].request.type \notin RecognizedKinds \cup {""})
          => /\ tasks'[s].pc = "done"
             /\ tasks'[s].nresp = 1
             /\ tasks'[s].resp = ErrorResp("Unknown message type")
             /\ ~tasks'[s].ret
             /\ tasks'[s].fx = {}
             /\ UNCHANGED storeVars]_vars

\* A request of an unknown type from another extension was answered.
C14_Witness ==
    /\ tasks["a"].pc = "done"
    /\ tasks["a"].request.type = "MSG_NOT_A_KIND"
    /\ tasks["a"].sender = ForeignSender
    /\ tasks["a"].resp = ErrorResp("Unknown message type")


\* The sender is one the kind accepts: the extension's own origin, or, for
\* the single-tab suspend, a sender attached to a tab.
Authorized(request, sender) ==
    \/ OwnOrigin(sender)
    \/ request.type = "MSG_SUSPEND_TAB" /\ sender.tabId # Undefined

\* The required payload field of the request is missing or malformed.
Malformed(request, sender) ==
    CASE request.type = "MSG_SAVE_SETTINGS" ->
            request.settings \in {"absent", "notObject"}
      [] request.type = "MSG_SAVE_WHITELIST" ->
            request.newWhitelist \in {"absent", "notArray"}
      [] request.type = "MSG_SUSPEND_TAB" ->
            request.tabId = Undefined /\ sender.tabId = Undefined
      [] request.type = "MSG_UNSUSPEND_TAB" ->
            request.tabId = Undefined
      [] request.type \in SelectedKinds ->
            ~(/\ request.tabIds.isArray
              /\ request.tabIds.items # <<>>
              /\ \A i \in DOMAIN request.tabIds.items : request.tabIds.items[i].isNumber)
      [] OTHER -> FALSE

\* C15 (SpecRouter): a request of a recognized kind from an authorized sender
\* whose required payload field is missing or malformed has been answered
\* with an {error} response, or that response is about to be sent, when
\* handleMessage returns, and no preference save, suspension or scheduling
\* call was made for it.
C15_MalformedPayloadRejected ==
    \A s \in Slots :
        LET t == tasks[s]
        IN  (/\ t.pc # "idle"
             /\ ~t.request.isNull
             /\ Authorized(t.request, t.sender)
             /\ Malformed(t.request, t.sender))
            => /\ \/ t.pc = "done" /\ t.nresp = 1
                  \/ t.pc = "reply" /\ t.nresp = 0
               /\ ErrorShape(t.resp)
               /\ t.fx = {}


\* C16 as stated (SpecRouter): whenever a collaborator or storage call failed
\* for a request, the request has been answered, once it is settled, with
\* {error: <the message of that failure>}.
C16_EveryFailureAnswered ==
    \A s \in Slots :
        LET t == tasks[s]
        IN  (t.pc = "done" /\ t.failed # "none")
            => /\ t.nresp = 1
               /\ t.resp = ErrorResp(IF t.failed = "" THEN "Unknown error"
                                     ELSE t.failed)

\* C16 (SpecRouter): when the async function of a handler is rejected (a
\* failure propagated out of it), the request is answered exactly once with
\* {error: <the failure's message>}, or {error: "Unknown error"} when the
\* failure has no message; a failure that occurred while the handler still
\* waits has left it able to go on, and a request whose failures were all
\* absorbed before the handler boundary is answered as well.
C16_RejectionAnswered ==
    \A s \in Slots :
        LET t == tasks[s]
        IN  /\ (t.pc = "done" /\ t.thrown # "none")
               => /\ t.nresp = 1
                  /\ t.resp = ErrorResp(IF t.thrown = "" THEN "Unknown error"
                                        ELSE t.thrown)
            /\ (t.pc = "done" /\ t.failed # "none") => t.nresp >= 1
            /\ (Pending(t) /\ t.failed # "none") => ENABLED HandlerStep(s)

\* A single-tab request whose collaborator rejected without a message was
\* answered {error: "Unknown error"}.
C16_Witness ==
    /\ tasks["a"].pc = "done"
    /\ tasks["a"].request.type = "MSG_UNSUSPEND_TAB"
    /\ tasks["a"].thrown = ""
    /\ tasks["a"].resp = ErrorResp("Unknown error")


\* The response { running }.
RunningResp(running) ==
    Resp("absent", "absent", Data("running", IF running THEN 1 ELSE 0, 0, 0, 0))

\* The status query is accepted from the sender it arrives from, and the step
\* that answers it changes neither the flags, the timer nor the tracking maps.
StatusQueryHandled(s) ==
    /\ (/\ tasks[s].pc = "idle"
        /\ tasks'[s].pc # "idle"
        /\ ~tasks'[s].request.isNull
        /\ tasks'[s].request.type = "IS_BULK_OP_RUNNING")
       => /\ tasks'[s].pc = "q_get"
          /\ tasks'[s].nresp = 0
          /\ UNCHANGED storeVars
    /\ (tasks[s].pc = "q_get" /\ tasks'[s] # tasks[s])
       => /\ tasks'[s].pc = "done"
          /\ tasks'[s].nresp = 1
          /\ UNCHANGED storeVars

\* C17 as stated (SpecRouter): the status query is answered for every sender
\* with the current stored value of the bulk flag, and handling it changes
\* neither the flag, the watchdog timer nor any State Store map.
C17_StatusQueryStoredValue ==
    [][\A s \in Slots :
          /\ StatusQueryHandled(s)
          /\ (tasks[s].pc = "q_get" /\ tasks'[s] # tasks[s])
             => tasks'[s].resp = RunningResp(bulkStored)]_vars

\* C17 (SpecRouter): the status query is answered for every sender, with
\* the current stored value of the bulk flag when the storage read succeeds
\* and with false when it fails, and handling it changes neither the flag, the
\* watchdog timer nor any State Store map.
C17_StatusQueryAnswered ==
    [][\A s \in Slots :
          /\ StatusQueryHandled(s)
          /\ (tasks[s].pc = "q_get" /\ tasks'[s] # tasks[s])
             => tasks'[s].resp = RunningResp(IF tasks'[s].failed = "none"
                                             THEN bulkStored ELSE FALSE)]_vars

\* Another extension asked while the flag was set and its watchdog armed, and
\* was told so.
C17_Witness ==
    /\ tasks["a"].pc = "done"
    /\ tasks["a"].request.type = "IS_BULK_OP_RUNNING"
    /\ tasks["a"].sender = ForeignSender
    /\ tasks["a"].resp = RunningResp(TRUE)
    /\ bulkStored
    /\ bulkOpTimeoutId # 0


\* C18 (SpecRouter): a single-tab suspend request is accepted exactly when
\* the sender is the extension's own origin or is attached to a tab, and is
\* otherwise answered "Permission denied"; when accepted, suspendTab is called
\* on the payload's tabId whenever the payload carries one, on the sender's
\* own tab id when it carries none, and on no tab (error response) when
\* neither exists.
C18_SuspendTabTarget ==
    \A s \in Slots :
        LET t == tasks[s]
            accepted == OwnOrigin(t.sender) \/ t.sender.tabId # Undefined
        IN  (t.pc # "idle" /\ ~t.request.isNull /\ t.request.type = "MSG_SUSPEND_TAB")
            => IF ~accepted
               THEN t.pc = "done" /\ t.resp = ErrorResp("Permission denied") /\ t.fx = {}
               ELSE IF t.request.tabId # Undefined
               THEN t.fx = {"suspendTab"} /\ t.arg = t.request.tabId
               ELSE IF t.sender.tabId # Undefined
               THEN t.fx = {"suspendTab"} /\ t.arg = t.sender.tabId
               ELSE /\ t.pc = "done"
                    /\ ErrorShape(t.resp)
                    /\ t.resp # ErrorResp("Permission denied")
                    /\ t.fx = {}


\* C19 (SpecRouter): when handleMessage returns true, sendResponse has not
\* been called yet and the handler is still to call it; when it returns
\* false, sendResponse has already been called, once.  Afterwards a request
\* for which true was returned stays able to go on until it is answered, and
\* one for which false was returned is answered no second time.
C19_ReturnValueMatchesPath ==
    /\ [][\A s \in Slots :
             (tasks[s].pc = "idle" /\ tasks'[s].pc # "idle")
             => /\ tasks'[s].ret <=> (tasks'[s].nresp = 0 /\ Pending(tasks'[s]))
                /\ ~tasks'[s].ret <=> (tasks'[s].nresp = 1 /\ tasks'[s].pc = "done")]_vars
    /\ [](\A s \in Slots :
             /\ (Pending(tasks[s]) /\ tasks[s].ret) => ENABLED HandlerStep(s)
             /\ Pending(tasks[s]) => tasks[s].ret
             /\ tasks[s].pc = "done" => tasks[s].nresp >= 1
             /\ (tasks[s].pc = "done" /\ ~tasks[s].ret) => tasks[s].nresp = 1)

\* handleMessage returned true for a request whose async function had
\* already returned its (validation error) result: the response is still to
\* be sent.
C19_Witness ==
    /\ tasks["a"].pc = "reply"
    /\ tasks["a"].ret
    /\ tasks["a"].nresp = 0
    /\ tasks["a"].request.type = "MSG_SAVE_WHITELIST"
    /\ tasks["a"].resp = ErrorResp("Invalid whitelist: Expected an array")


\* The ids of the members of request.tabIds that are numbers, in input order.
IsNumber(item) == item.isNumber
NumbersOf(items) ==
    [i \in 1..Len(SelectSeq(items, IsNumber)) |-> SelectSeq(items, IsNumber)[i].id]

\* C20 (SpecRouter): for a selected-tabs request with a non-empty tabIds
\* array from the extension's own origin, the calls of the suspension
\* collaborator made so far are the numeric ids in input order, one call per
\* id, each outcome (true, false, failure) counted and followed by the call
\* for the next id; the response the handler gives (the first call of
\* sendResponse) carries the counts, with
\* success + skipped + errors = total = the number of numeric ids.
C20_SelectedTabsCounts ==
    \A s \in Slots :
        LET t == tasks[s]
            ids == NumbersOf(t.request.tabIds.items)
            counted == t.n.success + t.n.skipped + t.n.errors
        IN  (/\ t.pc # "idle"
             /\ ~t.request.isNull
             /\ t.request.type \in SelectedKinds
             /\ OwnOrigin(t.sender)
             /\ t.request.tabIds.isArray
             /\ t.request.tabIds.items # <<>>)
            => /\ Len(t.calls) <= Len(ids)
               /\ t.calls = SubSeq(ids, 1, Len(t.calls))
               /\ ids # <<>> =>
                     t.fx = {IF t.request.type = "MSG_SUSPEND_SELECTED_TABS"
                             THEN "suspendTab" ELSE "unsuspendTab"}
               /\ Pending(t) =>
                     IF ids = <<>> THEN counted = 0 ELSE Len(t.calls) = counted + 1
               /\ t.pc \in {"reply", "done"} =>
                     /\ t.calls = ids
                     /\ counted = Len(ids)
                     /\ t.nresp <= 1 =>
                        t.resp = Resp("true", "absent",
                                      Data("counts", t.n.success, t.n.skipped,
                                           t.n.errors, Len(ids)))

\* The call for the first of two numeric ids failed, the call for the second
\* was made and succeeded, and the request was answered with the counts.
C20_Witness ==
    /\ tasks["a"].pc = "done"
    /\ tasks["a"].request.type = "MSG_UNSUSPEND_SELECTED_TABS"
    /\ tasks["a"].calls = <<2, 1>>
    /\ tasks["a"].n = Counts(1, 0, 1)
    /\ tasks["a"].resp = CountsResp(Counts(1, 0, 1), 2)


\* The side effects a well-formed preference-saving request owes once the
\* preferences are saved.
Owed(request) ==
    CASE request.type = "MSG_SAVE_WHITELIST" /\ request.newWhitelist = "array" ->
            {"saveWhitelist", "debouncedScheduleAllTabsAlarmBacked"}
      [] request.type = "MSG_SAVE_SETTINGS" /\ request.settings = "suspendAfter" ->
            {"savePrefs", "debouncedScheduleAllTabsAlarmBacked"}
      [] request.type = "MSG_SAVE_SETTINGS" /\ request.settings = "unsavedFormHandling" ->
            {"savePrefs", "debouncedScheduleAllTabsAlarmBacked",
             "notifyAllTabsPrefsChanged"}
      [] request.type = "MSG_SAVE_SETTINGS" /\ request.settings = "same" ->
            {"savePrefs"}
      [] OTHER -> {}

\* C21 (SpecDelivery): for a save-settings or save-whitelist request whose
\* save succeeded, the debounced reschedule, and the broadcast to the tabs when
\* unsavedFormHandling changed, have been carried out by the time
\* sendResponse is invoked, and so also when that invocation fails; the
\* failed delivery undoes and adds nothing.
C21_EffectsBeforeResponse ==
    /\ [](\A s \in Slots :
             LET t == tasks[s]
             IN  (t.nresp >= 1 /\ t.ret /\ t.thrown = "none")
                 => t.fx = Owed(t.request))
    /\ [][\A s \in Slots :
             (tasks[s].nresp = 1 /\ tasks'[s].nresp = 2)
             => tasks'[s].fx = tasks[s].fx /\ tasks'[s].pc = "done"]_vars

\* The response of a save-settings request that changed unsavedFormHandling
\* could not be delivered; the reschedule and the broadcast were made.
C21_Witness ==
    /\ tasks["a"].request.type = "MSG_SAVE_SETTINGS"
    /\ tasks["a"].request.settings = "unsavedFormHandling"
    /\ tasks["a"].nresp = 2
    /\ tasks["a"].resp = ErrorResp("channel closed")
    /\ {"debouncedScheduleAllTabsAlarmBacked", "notifyAllTabsPrefsChanged"}
          \subseteq tasks["a"].fx


\* C22 (SpecWindows): in every reachable state a window has an entry in
\* activeTabsByWindow only if a tab activation of that window was handled
\* since the process started and since the window was last removed.
C22_EntryOnlyAfterActivation ==
    \A w \in Windows :
        getActiveTabForWindow(activeTabsByWindow, w) # 0 => whist.lastAct[w] # 0


\* C23 (SpecTabs): the removal of tab T of window W always calls
\* removeTabSuspendTime(T) and leaves the map alone; the host is asked for the
\* active tab of W only if W is not closing and T is the tracked active tab of
\* W; once the host has answered, the entry of W is the tab the host reported,
\* is absent if it reported none, and is in no case T.
C23_TabRemovalRefreshesEntry ==
    [][/\ whist'.last = "handleTabRemoved"
          => /\ sched' = {Call("removeTabSuspendTime", whist'.tab)}
             /\ activeTabsByWindow' = activeTabsByWindow
             /\ (whist'.closing
                 \/ getActiveTabForWindow(activeTabsByWindow, whist'.w) # whist'.tab)
                => evts' = evts
       /\ whist'.last = "TabRemovedQueried"
          => \A s \in Slots :
                evts[s].pc = "tr_query"
                => /\ getActiveTabForWindow(activeTabsByWindow', evts[s].w) = whist'.tab
                   /\ getActiveTabForWindow(activeTabsByWindow', evts[s].w) # evts[s].tab
                   /\ \A v \in Windows \ {evts[s].w} :
                         activeTabsByWindow'[v] = activeTabsByWindow[v]]_vars

\* C24 as stated (SpecUpdates): handleTabUpdated calls scheduleTab for the tab
\* exactly when changeInfo has url, audible or pinned, or its status is
\* 'complete'; it makes no other call and changes no state of the tracker.
C24_UpdateSchedulesOnSignificantChange ==
    [][whist'.last = "handleTabUpdated"
          => /\ sched' = (IF whist'.change.url \/ whist'.change.audible
                             \/ whist'.change.pinned
                             \/ whist'.change.status = "complete"
                          THEN {Call("scheduleTab", whist'.tab)}
                          ELSE {})
             /\ UNCHANGED <<storeVars, liveWindows, evts, tasks>>]_vars

\* C24 (SpecUpdates): handleTabUpdated calls scheduleTab for the tab exactly when
\* the event has a tab id other than 0 and its tab, and changeInfo has url,
\* audible or pinned, or its status is 'complete'; it makes no other call and
\* changes no state of the tracker.
C24_UpdateSchedulesWhenTabGiven ==
    [][whist'.last = "handleTabUpdated"
          => /\ sched' = (IF /\ Truthy(whist'.tab)
                             /\ whist'.ok
                             /\ \/ whist'.change.url
                                \/ whist'.change.audible
                                \/ whist'.change.pinned
                                \/ whist'.change.status = "complete"
                          THEN {Call("scheduleTab", whist'.tab)}
                          ELSE {})
             /\ UNCHANGED <<storeVars, liveWindows, evts, tasks>>]_vars

\* An update that only changed the audible state has rescheduled the tab.
C24_Witness ==
    /\ whist.last = "handleTabUpdated"
    /\ whist.ok
    /\ whist.change = ChangeInfo(FALSE, TRUE, FALSE, "loading")
    /\ sched = {Call("scheduleTab", whist.tab)}


\* C25 (SpecActivation): handleTabActivated reads the previous active tab of W
\* before it overwrites the entry with T, and once the lookup of W has come
\* back it calls unscheduleTab(T) exactly when W is the focused window (as the
\* host says, or, if the host could not say, as lastFocusedWindowId says) or
\* neverSuspendLastWindow is on and W is the last focused window.
C25_UnscheduleWhenFocused ==
    [][\A s \in Slots :
          /\ (evts[s].pc = "idle" /\ evts'[s].pc = "ta_window")
             => /\ evts'[s].prev =
                      getActiveTabForWindow(activeTabsByWindow, evts'[s].w)
                /\ getActiveTabForWindow(activeTabsByWindow', evts'[s].w)
                      = evts'[s].tab
          /\ (evts[s].pc = "ta_window" /\ whist'.last = "ActivatedWindowGot"
              /\ evts'[s] # evts[s])
             => LET W == evts[s].w
                    T == evts[s].tab
                    focused ==
                        \/ whist'.got = "focused"
                        \/ whist'.got = "reject" /\ W = lastFocusedWindowId
                IN  (evts'[s].pc = "ta_unschedule" /\ evts'[s].tab = T)
                    <=> (focused \/ (whist'.policy /\ W = lastFocusedWindowId))]_vars

\* The previous active tab P of an activation is owed a scheduleTab(P): it
\* differs from the activated tab.
OwedReschedule ==
    /\ evts["a"].pc = "ta_window"
    /\ evts["a"].prev # 0
    /\ evts["a"].prev # evts["a"].tab

\* C26 (SpecPrevious): every activation whose previous active tab P differs
\* from the activated tab leads to scheduleTab(P), unless the host says that P
\* is gone or is a suspended page, whatever the lookup of the window and the
\* unscheduling of the activated tab come to.
C26_PreviousTabRescheduled ==
    OwedReschedule
    ~> \/ evts["a"].pc = "ta_schedule"
       \/ whist.last = "ActivatedPrevGot" /\ whist.got # "tab"


\* C27 (SpecWindows): a focus change to WINDOW_ID_NONE leaves
\* lastFocusedWindowId, the active-tab map, the flags and the handlers in
\* flight as they are and calls no collaborator; and
\* updateLastFocusedWindow(WINDOW_ID_NONE) leaves lastFocusedWindowId
\* unchanged, whatever it is.
C27_FocusLeftIsIgnored ==
    /\ [][(whist'.last = "handleWindowFocusChanged" /\ whist'.w = WINDOW_ID_NONE)
             => /\ UNCHANGED <<storeVars, liveWindows, evts, tasks>>
                /\ sched' = {}]_vars
    /\ [](updateLastFocusedWindow(lastFocusedWindowId, WINDOW_ID_NONE)
             = lastFocusedWindowId)

\* The focus left the application while a window was the last focused one and
\* had an active tab on record.
C27_Witness ==
    /\ whist.last = "handleWindowFocusChanged"
    /\ whist.w = WINDOW_ID_NONE
    /\ lastFocusedWindowId \in Windows
    /\ activeTabsByWindow[lastFocusedWindowId] # 0
    /\ sched = {}

\* C28 (SpecWindows): a focus change to W makes W the last focused window and
\* unschedules the active tab the host reports for W; the handler goes on to
\* reschedule only if neverSuspendLastWindow is on and the previous last
\* focused window was a window other than W, and then, if no call fails, it
\* calls scheduleTab for the active tab of every other window that is not a
\* suspended page, and for no tab of W; otherwise it reschedules nothing.
C28_FocusMovesProtection ==
    [][\A s \in Slots :
          /\ (whist'.last = "handleWindowFocusChanged" /\ whist'.w # WINDOW_ID_NONE
              /\ evts'[s].pc = "wf_query")
             => lastFocusedWindowId' = whist'.w
          /\ (whist'.last = "FocusQueried" /\ evts[s].pc = "wf_query")
             => /\ whist'.tab # 0 => sched' = {Call("unscheduleTab", whist'.tab)}
                /\ whist'.tab = 0 => sched' = {}
          /\ (whist'.last = "FocusUnscheduled" /\ evts[s].pc = "wf_unschedule")
             => /\ sched' = sched
                /\ evts'[s].pc = "wf_getAll"
                   => /\ whist'.policy
                      /\ evts[s].prev \in Windows \ {evts[s].w}
          /\ (whist'.last = "FocusGotAll" /\ evts[s].pc = "wf_getAll")
             => /\ sched' = sched
                /\ (whist'.ok /\ liveWindows \ {evts[s].w} # {})
                   => /\ evts'[s].pc = "wf_tabs"
                      /\ evts'[s].list = liveWindows \ {evts[s].w}
          /\ (whist'.last = "FocusTabsQueried" /\ evts[s].pc = "wf_tabs")
             => /\ Call("scheduleTab", evts[s].tab) \notin sched'
                /\ \A r \in whist'.reports : r.w \in evts[s].list \ {evts[s].w}
                /\ sched' = sched \cup Rescheduled(whist'.reports)
                /\ whist'.ok
                   => \/ /\ evts'[s].pc \in {"wf_tabs", "wf_schedule"}
                         /\ evts'[s].list =
                               evts[s].list \ {r.w : r \in whist'.reports}
                      \/ /\ evts'[s].pc = "idle"
                         /\ evts[s].list = {r.w : r \in whist'.reports}
                         /\ Rescheduled(whist'.reports) = {}
          /\ (whist'.last = "FocusScheduled" /\ evts[s].pc = "wf_schedule")
             => /\ sched' = sched
                /\ whist'.ok
                   => \/ evts'[s] = [evts[s] EXCEPT !.pc = "wf_tabs"]
                      \/ evts'[s].pc = "idle" /\ evts[s].list = {}]_vars


\* C29 (SpecAlarms): the scan alarm calls scanTabsForSuspension only, the
\* cleanup alarm calls nothing, the state-cleanup alarm calls
\* cleanupStateReferences only, the session alarm asks getAutoSaveEnabled and
\* calls saveCurrentSession only if the answer is yes, and any other alarm
\* calls nothing; a rejected call ends its handler and changes nothing else,
\* so that the next alarm or event is taken as any other.
C29_AlarmsIsolated ==
    [][/\ whist'.last = "handleAlarmEvent"
          => /\ sched' =
                   (CASE whist'.alarm = "TS_TAB_SCAN_ALARM_NAME" ->
                            {Call("scanTabsForSuspension", 0)}
                      [] whist'.alarm = "TS_STATE_CLEANUP_NAME" ->
                            {Call("cleanupStateReferences", 0)}
                      [] whist'.alarm = "TS_SESSION_FREQUENT_SAVE" ->
                            {Call("getAutoSaveEnabled", 0)}
                      [] OTHER -> {})
             /\ UNCHANGED storeVars
             /\ whist'.alarm \notin AlarmNames => evts' = evts
       /\ whist'.last = "AlarmEnabledGot"
          => sched' = (IF whist'.got = "enabled"
                       THEN {Call("getAutoSaveEnabled", 0), Call("saveCurrentSession", 0)}
                       ELSE {Call("getAutoSaveEnabled", 0)})
       /\ whist'.last \in {"AlarmScanned", "AlarmSaved"} => sched' = sched
       /\ (whist'.last \in {"AlarmScanned", "AlarmEnabledGot", "AlarmSaved"}
           /\ ~whist'.ok)
          => /\ \A s \in Slots : evts'[s].pc = "idle"
             /\ UNCHANGED <<storeVars, liveWindows, tasks>>]_vars

\* After the scan of an earlier alarm failed, the session alarm fired, found
\* auto-save enabled and saved the session.
C29_Witness ==
    /\ whist.failed
    /\ whist.last = "AlarmSaved"
    /\ whist.ok
    /\ sched = {Call("getAutoSaveEnabled", 0), Call("saveCurrentSession", 0)}
    /\ evts["a"].pc = "idle"


C31_OneWatchdogPending ==
    Cardinality(timers) <= 1


\* C32 (SpecBulk): once a setBulkOpRunning(false) that follows an activation
\* has written the flag, and until setBulkOpRunning is called again, the
\* stored flag is false, no watchdog timer is pending and no reset broadcast
\* is attempted.
C32_CleanCompletionIsFinal ==
    hist.clean => (~bulkStored /\ timers = {} /\ ~hist.late)


\* C33 (SpecBulk): when a watchdog callback has ended, and until
\* setBulkOpRunning is called or writes again, the stored bulk flag is false,
\* whether the reset message was delivered, was not delivered, or was never
\* sent.
C33_WatchdogForcesFalse ==
    hist.wd \in {"delivered", "undelivered", "unwritten"} => ~bulkStored


\* C34 as stated (SpecReload): in a run with a positive inter-batch delay, a
\* wait is in progress only after a batch has settled with more valid
\* descriptors remaining; while batch number n runs, n - 1 waits were begun;
\* and when the function has returned after k batches, k - 1 waits (none for
\* k = 0) and as many progress lines were made, none of them after the last
\* batch.
C34_WaitsOnlyBetweenChunks ==
    rl.batchDelay =>
       /\ rl.pc = "delay" => /\ Unsettled(rl) = {}
                             /\ rl.i + rl.batchSize < Len(rl.valid)
                             /\ rl.waits = Len(rl.sizes)
       /\ rl.pc = "batch" => rl.waits = Len(rl.sizes) - 1
       /\ rl.pc = "done" => /\ rl.waits = (IF rl.sizes = <<>> THEN 0
                                           ELSE Len(rl.sizes) - 1)
                            /\ Len(rl.progress) = rl.waits

\* C34 (SpecReload): a wait is in progress only in a run with a positive
\* inter-batch delay, after a batch has settled with more valid descriptors
\* remaining; while batch number n runs, n - 1 waits were begun in such a run
\* and none in a run whose delay is not positive; when the function has
\* returned after k batches, k - 1 waits were made (none for k = 0, none
\* without a positive delay).  With or without a delay a progress line is
\* logged after every batch, the last included, after the wait that follows
\* the batch if there is one: n - 1 lines while batch n runs or its wait is
\* in progress, k lines at the return, the last of them 100 percent.
C34_WaitsBetweenChunks ==
    /\ rl.pc = "delay" => /\ rl.batchDelay
                          /\ Unsettled(rl) = {}
                          /\ rl.i + rl.batchSize < Len(rl.valid)
                          /\ rl.waits = Len(rl.sizes)
                          /\ Len(rl.progress) = Len(rl.sizes) - 1
    /\ rl.pc = "batch" => /\ rl.waits = (IF rl.batchDelay THEN Len(rl.sizes) - 1
                                         ELSE 0)
                          /\ Len(rl.progress) = Len(rl.sizes) - 1
    /\ rl.pc = "done" => /\ rl.waits = (IF rl.batchDelay /\ rl.sizes # <<>>
                                        THEN Len(rl.sizes) - 1 ELSE 0)
                         /\ Len(rl.progress) = Len(rl.sizes)
                         /\ rl.sizes # <<>> => rl.progress[Len(rl.sizes)] = 100

\* A run of three batches with a positive inter-batch delay has returned, one
\* of its reloads failed: two waits were made and three progress lines logged.
C34_Witness ==
    /\ rl.pc = "done"
    /\ rl.batchDelay
    /\ Len(rl.sizes) = 3
    /\ rl.waits = 2
    /\ rl.errors > 0
    /\ rl.progress = <<40, 80, 100>>

\* C35 (SpecFlags): whenever no call of setBulkOpRunning is in progress, no
\* watchdog callback is running and the process has not restarted since the
\* bulk flag was last written, a stored flag of true implies that a watchdog
\* timer is pending.
C35_TrueFlagHasTimer ==
    (/\ \A s \in Slots : tasks[s].pc \notin {"bs_arm", "bs_clear", "rs_set", "call_set"}
     /\ wdRun = 0
     /\ ~hist.restarted.bulk
     /\ bulkStored)
       => timers # {}


\* C36 (SpecFavicon): the step in which a refresh request that wrote the
\* favicon-refresh flag true settles leaves the stored flag false and
\* broadcasts the done message, whatever the query and the reload did; the step
\* in which a request is rejected as already running leaves the flag as it was
\* and the request has broadcast nothing, reloaded nothing and written nothing.
C36_RefreshClearsItsFlag ==
    [][\A s \in Slots :
          /\ (/\ tasks[s].pc = "fr_clear"
              /\ tasks'[s].pc = "done"
              /\ "written:FAVICON_REFRESH_RUNNING" \in tasks[s].fx)
                => /\ ~favStored'
                   /\ "broadcast:MSG_FAVICON_REFRESH_DONE" \in tasks'[s].fx
          /\ (/\ tasks[s].pc = "fr_read"
              /\ tasks'[s].pc = "done"
              /\ tasks'[s].resp.error = "Favicon refresh already running")
                => /\ favStored' = favStored
                   /\ tasks'[s].fx \cap {"broadcast:MSG_FAVICON_REFRESH_PROGRESS",
                                         "broadcast:MSG_FAVICON_REFRESH_DONE",
                                         "setFaviconRefreshRunning", "tabs.query",
                                         "tabs.reload"} = {}]_vars


\* C37 (SpecFaviconFair): whenever the favicon-refresh flag is stored true, it
\* is eventually stored false, also when the process restarts while a refresh
\* is in flight, so that a later refresh request can be accepted.
C37_FaviconFlagEventuallyFalse ==
    favStored ~> ~favStored


\* C38 (SpecOverlap): the step in which the query of handleTabRemoved returns
\* leaves the entry of the window as it is when an activation handled since
\* the removal has replaced the removed tab in it, and leaves the window
\* without an entry when the window has been removed since.
C38_ContinuationKeepsNewerState ==
    [][\A s \in Slots :
          (evts[s].pc = "tr_query" /\ evts'[s].pc = "idle") =>
             LET w == evts[s].w
                 entry == getActiveTabForWindow(activeTabsByWindow, w)
             IN  /\ entry \notin {0, evts[s].tab} =>
                       getActiveTabForWindow(activeTabsByWindow', w) = entry
                 /\ w \notin liveWindows =>
                       getActiveTabForWindow(activeTabsByWindow', w) = 0]_vars


\* C39 (SpecSweep): the step in which the sweep applies its deletions leaves
\* the entry of every window that is live at that moment as it is, and leaves
\* lastFocusedWindowId as it is when it names a window live at that moment.
C39_SweepSparesLiveWindows ==
    [][(evts["a"].pc = "cl_got" /\ evts'["a"].pc = "idle") =>
          /\ \A w \in liveWindows :
                getActiveTabForWindow(activeTabsByWindow', w)
                   = getActiveTabForWindow(activeTabsByWindow, w)
          /\ lastFocusedWindowId \in liveWindows =>
                lastFocusedWindowId' = lastFocusedWindowId]_vars


\* C40 (SpecRouter): a single-tab suspend request whose sender is not the
\* extension's own origin, and is admitted because it is attached to a tab,
\* has suspendTab called on the sender's own tab only, whatever tabId its
\* payload carries.
C40_ContentScriptSuspendsOwnTab ==
    \A s \in Slots :
        LET t == tasks[s]
        IN  (/\ t.pc # "idle"
             /\ ~t.request.isNull
             /\ t.request.type = "MSG_SUSPEND_TAB"
             /\ ~OwnOrigin(t.sender)
             /\ t.sender.tabId # Undefined
             /\ "suspendTab" \in t.fx)
            => t.arg = t.sender.tabId

====
